---- MODULE Spec2Model ----
(***************************************************************************)
(* Multistream chat: the merge / delay / moderation pipeline of            *)
(* src/pages/useChat.ts and the pub/sub (Kick) connector that feeds it.    *)
(*                                                                         *)
(* Spec        the pipeline (useChat): handleNewMessage, addMessage, the   *)
(*             delay timers, removeMessageByMsgId,                         *)
(*             removeMessagesByUser.                                       *)
(* SpecKick    one KickChatService instance, the WebSocket objects it      *)
(*             created and its timers; onMessage is the caller's callback  *)
(*             and a call of it is recorded, not followed.                 *)
(* SpecTwitch  one TwitchChatService instance (services/AuthService.ts),   *)
(*             its suspended connect() calls and its tmi.Client objects.   *)
(* SpecAuth    the credential of the Twitch session in useChat: initAuth,  *)
(*             refreshTwitchTokenIfNeeded, the refresh interval.           *)
(* SpecHide    the hide-after timers of the MessageRow components.         *)
(* SpecFlow    the pipeline as the page drives it: the messageDelay URL    *)
(*             parameter, removeMessage(id), the filter, unmount.          *)
(* SpecBurst   the pipeline under bursts that fill the history and the     *)
(*             recently-seen set.                                          *)
(* SpecLive    the pipeline over time, with fairness: due timers fire and  *)
(*             time passes while a timer waits.                            *)
(* SpecRedeliver  deletes and redeliveries around trims of the             *)
(*             recently-seen set.                                          *)
(*                                                                         *)
(* Time is in milliseconds.  Strings of the source are strings here; a     *)
(* platform message id is a positive number and 0 stands for the empty     *)
(* (falsy) msgId '' that the connectors produce when the platform gave no  *)
(* id.                                                                     *)
(***************************************************************************)
EXTENDS Integers, Sequences, FiniteSets, TLC

VARIABLES
  now,                  \* Date.now()
  messageDelay,         \* useState messageDelay (ms)
  messages,             \* useState messages: the visible history
  pendingTimeouts,      \* pendingTimeoutsRef: msgId -> {timeout, message}
  timers,               \* armed setTimeout(addMessage) timers, in creation order
  processedMessageIds,  \* processedMessageIdsRef: Set in insertion order
  calls,                \* number of single handleNewMessage calls so far
  bursts,               \* number of message bursts so far
  retracted,            \* history: messages a delete / ban event was aimed at
  evicted,              \* history: platform ids cleanupProcessedIds dropped
  kick,                 \* the fields of one KickChatService
  sockets,              \* the WebSocket objects it created, in creation order
  kickTimers,           \* its armed setTimeout / setInterval timers
  kickEnv,              \* connect() calls in flight, counters, history
  twitch,               \* the fields of one TwitchChatService
  clients,              \* the tmi.Client objects it created, in creation order
  twitchEnv,            \* its suspended connect() calls, counters, history
  auth,                 \* useChat's credential: localStorage, state, interval
  rows                  \* the mounted MessageRow components and their timers

pipeVars   == <<now, messageDelay, messages, pendingTimeouts, timers,
                processedMessageIds, calls, bursts, retracted, evicted>>
kickVars   == <<kick, sockets, kickTimers, kickEnv>>
twitchVars == <<twitch, clients, twitchEnv>>
pageVars   == <<auth, rows>>
vars       == <<pipeVars, kickVars, twitchVars, pageVars>>

-----------------------------------------------------------------------------
(* Bounds of the model *)

MaxArrivals == 2      \* single handleNewMessage calls explored
MaxBursts   == 1      \* message bursts explored
MaxTime     == 5000   \* the clock stops advancing here
MaxSockets  == 2      \* WebSocket objects one Kick service may create
MaxClients  == 2      \* tmi.Client objects one Twitch service may create
MaxChecks   == 3      \* firings of the credential check interval
MaxHideTicks == 3     \* half hide-after periods the page is watched for
MaxConnects == 2      \* connect() calls on one connector

-----------------------------------------------------------------------------
(* Constants of useChat.ts *)

DEFAULT_DELAY_MS == 5000
MAX_DELAY_SECONDS == 6
PROCESSED_MESSAGES_LIMIT == 1000
PROCESSED_MESSAGES_KEEP == 500
TOKEN_REFRESH_THRESHOLD_MS == 600000
TOKEN_REFRESH_INTERVAL_MS == 300000

PRIVILEGED_BADGES ==
  <<"lead_moderator", "moderator", "vip", "broadcaster", "owner", "og",
    "staff", "super_admin">>

DEFAULT_CONFIG ==
  [hideAfter     |-> 180,
   messagesLimit |-> 20,
   hideCommands  |-> TRUE,
   ignoredUsers  |-> <<"streamelements", "@streamelements", "cuscuzbot">>]

config == DEFAULT_CONFIG

-----------------------------------------------------------------------------
(* Strings: String.prototype.toLowerCase and startsWith on the strings the  *)
(* model uses.  Array.prototype.filter is SelectSeq.                       *)

LowerTable ==
  [s \in {"Bob", "BOB", "bob", "ann", "Ann", "StreamElements", "streamelements",
          "viewer", "Moderator", "moderator", "subscriber", "VIP", "vip",
          "Lead-Moderator", "Super-Admin", "Lead_Moderator", "OG"} |->
     CASE s = "Bob" -> "bob"
       [] s = "BOB" -> "bob"
       [] s = "Ann" -> "ann"
       [] s = "StreamElements" -> "streamelements"
       [] s = "Moderator" -> "moderator"
       [] s = "VIP" -> "vip"
       [] s = "Lead-Moderator" -> "lead-moderator"
       [] s = "Super-Admin" -> "super-admin"
       [] s = "Lead_Moderator" -> "lead_moderator"
       [] s = "OG" -> "og"
       [] OTHER -> s]

toLowerCase(s) == IF s \in DOMAIN LowerTable THEN LowerTable[s] ELSE s

\* text.startsWith('!') for the texts of the model
startsWithBang(text) == text \in {"!cmd", "!drop"}

Range(s) == {s[i] : i \in 1..Len(s)}

\* Array.prototype.slice(-k), k > 0
sliceLast(s, k) == IF Len(s) > k THEN SubSeq(s, Len(s) - k + 1, Len(s)) ELSE s

-----------------------------------------------------------------------------
(* The messages the connectors hand to handleNewMessage *)

\* The platform events the connectors deliver: a platform id belongs to one
\* event (author and text), delivered once or again; events without platform
\* id carry msgId 0.
Inbound ==
  {[msgId |-> 1, displayName |-> "Bob", text |-> "hi"],
   [msgId |-> 2, displayName |-> "Bob", text |-> "hi"],
   [msgId |-> 3, displayName |-> "ann", text |-> "hi"],
   [msgId |-> 0, displayName |-> "Bob", text |-> "hi"],
   [msgId |-> 0, displayName |-> "Bob", text |-> "!cmd"]}

MsgIds == {e.msgId : e \in Inbound} \ {0}
\* the badges a viewer wears: ann moderates the channel, lea wears a badge of
\* type 'Lead-Moderator'
badgesOf(displayName) ==
  IF toLowerCase(displayName) = "ann" THEN <<"subscriber", "Moderator">>
  ELSE IF displayName = "lea" THEN <<"Lead-Moderator">>
  ELSE <<"subscriber">>
BanNames == {"BOB"}                        \* usernames of ban events

userIdOf(displayName) ==
  CASE toLowerCase(displayName) = "bob" -> 1
    [] toLowerCase(displayName) = "ann" -> 2
    [] OTHER -> 0

providerOf(displayName) ==
  IF toLowerCase(displayName) = "bob" THEN "twitch" ELSE "kick"

\* id: tags.id || `${Date.now()}-${Math.random()}` (a value no platform id
\* equals, different on every call)
RandomIdBase == 100
localId(msgId, call) == IF msgId # 0 THEN msgId ELSE RandomIdBase + call

\* The ChatMessage a connector builds (KickChat.ts processKickMessage,
\* AuthService.ts the 'message' listener).  `call` is the identity of the
\* message object: the number of the handleNewMessage call that receives it.
ChatMessage(msgId, displayName, badges, text, call) ==
  [id          |-> localId(msgId, call),
   msgId       |-> msgId,
   userId      |-> userIdOf(displayName),
   displayName |-> displayName,
   text        |-> text,
   badges      |-> badges,
   timestamp   |-> now,
   provider    |-> providerOf(displayName),
   call        |-> call]

NoMessage == ChatMessage(0, "", <<>>, "", 0)

-----------------------------------------------------------------------------
(* The recently-seen set.  A JavaScript Set iterates in insertion order;    *)
(* it is a sequence of entries [key, n].  n = 1 for the key of one         *)
(* message; an entry with n > 1 stands for n distinct synthesized keys of  *)
(* n consecutive messages without platform id (a burst of commands), none  *)
(* of which any later message repeats.                                     *)

getMessageKey(message) ==
  IF message.msgId # 0
    THEN [msgId |-> message.msgId, provider |-> "", userId |-> 0, text |-> "",
          timestamp |-> 0]
    ELSE [msgId |-> 0, provider |-> message.provider, userId |-> message.userId,
          text |-> message.text, timestamp |-> message.timestamp]

RECURSIVE setSize(_)
setSize(ids) == IF ids = <<>> THEN 0 ELSE Head(ids).n + setSize(Tail(ids))

setHas(ids, key) == \E i \in 1..Len(ids) : ids[i].n = 1 /\ ids[i].key = key

\* Array.from(set).slice(-k)
RECURSIVE lastKeys(_, _)
lastKeys(ids, k) ==
  IF k <= 0 \/ ids = <<>> THEN <<>>
  ELSE LET e == ids[Len(ids)]
           front == SubSeq(ids, 1, Len(ids) - 1)
       IN  IF e.n <= k THEN Append(lastKeys(front, k - e.n), e)
           ELSE <<[e EXCEPT !.n = k]>>

cleanupProcessedIds_keepFewer(ids) ==
  IF setSize(ids) > PROCESSED_MESSAGES_LIMIT
    THEN lastKeys(ids, PROCESSED_MESSAGES_KEEP - 1)
    ELSE ids

cleanupProcessedIds(ids) ==
  IF setSize(ids) > PROCESSED_MESSAGES_LIMIT
    THEN lastKeys(ids, PROCESSED_MESSAGES_KEEP)
    ELSE ids

\* processedMessageIdsRef.current.add(key); cleanupProcessedIds()
addProcessed(ids, key) == cleanupProcessedIds(Append(ids, [key |-> key, n |-> 1]))

\* n times: add a fresh synthesized key, then cleanupProcessedIds()
RECURSIVE addFreshKeys(_, _, _)
addFreshKeys(ids, key, n) ==
  IF n = 0 THEN ids
  ELSE LET room == PROCESSED_MESSAGES_LIMIT - setSize(ids)
       IN  IF n <= room THEN Append(ids, [key |-> key, n |-> n])
           ELSE addFreshKeys(
                  cleanupProcessedIds(Append(ids, [key |-> key, n |-> room + 1])),
                  key, n - (room + 1))

-----------------------------------------------------------------------------
(* Pure helpers of useChat.ts and messageUtils.ts *)

hasPrivilegedBadge_caseSensitive(badges) ==
  \E i \in 1..Len(badges) : badges[i] \in Range(PRIVILEGED_BADGES)

hasPrivilegedBadge(badges) ==
  \E i \in 1..Len(badges) : toLowerCase(badges[i]) \in Range(PRIVILEGED_BADGES)

shouldHideMessage_commandsOnly(text, hideCommands, ignored, displayName) ==
  hideCommands /\ startsWithBang(text)

shouldHideMessage(text, hideCommands, ignored, displayName) ==
  \/ hideCommands /\ startsWithBang(text)
  \/ toLowerCase(displayName) \in Range(ignored)

\* Map.prototype.set / delete / get on pendingTimeoutsRef
mapSet(m, k, v) == [x \in DOMAIN m \cup {k} |-> IF x = k THEN v ELSE m[x]]
mapDelete(m, k) == [x \in DOMAIN m \ {k} |-> m[x]]
emptyMap == [x \in {} |-> NoMessage]

\* clearTimeout(id): the timer, if still armed, is disarmed
clearTimeout(ts, id) == SelectSeq(ts, LAMBDA t : t.id # id)

-----------------------------------------------------------------------------
(* The handlers as functions of the pipeline's mutable state               *)
(* P = [messages, pending, timers, processed].                             *)

addMessage_keepOldest(P, message) ==
  LET newMessages == Append(P.messages, message)
  IN  [P EXCEPT !.pending = IF message.msgId # 0
                              THEN mapDelete(P.pending, message.msgId)
                              ELSE P.pending,
                !.messages = IF Len(newMessages) > config.messagesLimit
                               THEN SubSeq(newMessages, 1, config.messagesLimit)
                               ELSE newMessages]

addMessage_keepsPending(P, message) ==
  LET newMessages == Append(P.messages, message)
  IN  [P EXCEPT !.messages = IF Len(newMessages) > config.messagesLimit
                               THEN sliceLast(newMessages, config.messagesLimit)
                               ELSE newMessages]

addMessage_prepend(P, message) ==
  LET newMessages == <<message>> \o P.messages
  IN  [P EXCEPT !.pending = IF message.msgId # 0
                              THEN mapDelete(P.pending, message.msgId)
                              ELSE P.pending,
                !.messages = IF Len(newMessages) > config.messagesLimit
                               THEN sliceLast(newMessages, config.messagesLimit)
                               ELSE newMessages]

addMessage(P, message) ==
  LET pending1 == IF message.msgId # 0 THEN mapDelete(P.pending, message.msgId)
                  ELSE P.pending
      newMessages == Append(P.messages, message)
  IN  [P EXCEPT !.pending = pending1,
                !.messages = IF Len(newMessages) > config.messagesLimit
                               THEN sliceLast(newMessages, config.messagesLimit)
                               ELSE newMessages]

schedule_evicts(P, message, delay, shouldDelay) ==
  IF shouldDelay
    THEN [P EXCEPT !.timers =
                     Append(@, [id |-> message.call,
                                due |-> message.timestamp + delay,
                                message |-> message]),
                   !.pending =
                     IF message.msgId # 0
                       THEN mapSet(@, message.msgId,
                                   [timeout |-> message.call, message |-> message])
                       ELSE @,
                   !.messages =
                     IF Len(@) >= config.messagesLimit THEN Tail(@) ELSE @]
    ELSE addMessage(P, message)

\* the tail of handleNewMessage: the delay branch and the commit branch
schedule(P, message, delay, shouldDelay) ==
  IF shouldDelay
    THEN LET timeoutId == message.call
             P2 == [P EXCEPT !.timers =
                      Append(@, [id |-> timeoutId,
                                 due |-> message.timestamp + delay,
                                 message |-> message])]
         IN  IF message.msgId # 0
               THEN [P2 EXCEPT !.pending =
                       mapSet(@, message.msgId,
                              [timeout |-> timeoutId, message |-> message])]
               ELSE P2
    ELSE addMessage(P, message)

handleNewMessage_noDelay(P, message, delay) ==
  LET messageKey == getMessageKey(message) IN
  IF setHas(P.processed, messageKey) THEN P
  ELSE
    LET P1 == [P EXCEPT !.processed = addProcessed(P.processed, messageKey)] IN
    IF shouldHideMessage(message.text, config.hideCommands, config.ignoredUsers,
                         message.displayName)
      THEN P1
      ELSE schedule(P1, message, delay, FALSE)

handleNewMessage_noDedup(P, message, delay) ==
  LET messageKey == getMessageKey(message)
      P1 == [P EXCEPT !.processed = addProcessed(P.processed, messageKey)] IN
  IF shouldHideMessage(message.text, config.hideCommands, config.ignoredUsers,
                       message.displayName)
    THEN P1
    ELSE
      LET shouldDelay == ~hasPrivilegedBadge(message.badges) IN
      schedule(P1, message, delay, shouldDelay)

handleNewMessage(P, message, delay) ==
  LET messageKey == getMessageKey(message) IN
  IF setHas(P.processed, messageKey) THEN P
  ELSE
    LET P1 == [P EXCEPT !.processed = addProcessed(P.processed, messageKey)] IN
    IF shouldHideMessage(message.text, config.hideCommands, config.ignoredUsers,
                         message.displayName)
      THEN P1
      ELSE
        LET shouldDelay == ~hasPrivilegedBadge(message.badges) IN
        schedule(P1, message, delay, shouldDelay)

fireTimer_neverRuns(P, i) == P

\* the callback () => addMessage(message) of the armed timer P.timers[i]
fireTimer(P, i) ==
  addMessage([P EXCEPT !.timers = clearTimeout(@, P.timers[i].id)],
             P.timers[i].message)

removeMessage_byMsgId(P, messageId) ==
  [P EXCEPT !.messages = SelectSeq(@, LAMBDA msg : msg.msgId # messageId)]

removeMessage(P, messageId) ==
  [P EXCEPT !.messages = SelectSeq(@, LAMBDA msg : msg.id # messageId)]

removeMessageByMsgId_pendingOnly(P, msgId) ==
  IF msgId \in DOMAIN P.pending
    THEN [P EXCEPT !.timers = clearTimeout(@, P.pending[msgId].timeout),
                   !.pending = mapDelete(@, msgId)]
    ELSE P

removeMessageByMsgId_forgetsKey(P, msgId) ==
  LET P1 == IF msgId \in DOMAIN P.pending
              THEN [P EXCEPT !.timers = clearTimeout(@, P.pending[msgId].timeout),
                             !.pending = mapDelete(@, msgId)]
              ELSE P
  IN  [P1 EXCEPT !.messages = SelectSeq(@, LAMBDA msg : msg.msgId # msgId),
                 !.processed = SelectSeq(@, LAMBDA k : k.key.msgId # msgId)]

removeMessageByMsgId(P, msgId) ==
  LET P1 == IF msgId \in DOMAIN P.pending
              THEN [P EXCEPT !.timers = clearTimeout(@, P.pending[msgId].timeout),
                             !.pending = mapDelete(@, msgId)]
              ELSE P
  IN  [P1 EXCEPT !.messages = SelectSeq(@, LAMBDA msg : msg.msgId # msgId)]

removeMessagesByUser(P, username) ==
  LET lowerUsername == toLowerCase(username)
      hit == {k \in DOMAIN P.pending :
                toLowerCase(P.pending[k].message.displayName) = lowerUsername}
      cleared == {P.pending[k].timeout : k \in hit}
  IN  [P EXCEPT !.timers = SelectSeq(@, LAMBDA t : t.id \notin cleared),
                !.pending = [k \in DOMAIN P.pending \ hit |-> P.pending[k]],
                !.messages = SelectSeq(@, LAMBDA msg :
                               toLowerCase(msg.displayName) # lowerUsername)]

-----------------------------------------------------------------------------
(* initAuth: the messageDelay URL parameter is <<seconds>>, or Absent when  *)
(* the URL has none.  The pipeline runs in the default configuration: no   *)
(* messageDelay parameter, and hideAfter = 180, for which MessageRow arms   *)
(* no hide timer, so that the renderer never calls removeMessage.          *)

Absent == <<>>
DelayParams == {Absent}

Min(a, b) == IF a < b THEN a ELSE b
Max(a, b) == IF a > b THEN a ELSE b

initAuthDelay_noClamp(param) ==
  IF param = Absent THEN DEFAULT_DELAY_MS ELSE param[1] * 1000

initAuthDelay(param) ==
  IF param = Absent THEN DEFAULT_DELAY_MS
  ELSE Min(Max(param[1], 0), MAX_DELAY_SECONDS) * 1000

-----------------------------------------------------------------------------
(* The pipeline as a state machine *)

P0 == [messages |-> messages, pending |-> pendingTimeouts, timers |-> timers,
       processed |-> processedMessageIds]

\* the platform ids whose key is in the recently-seen set
knownIds(ids) == {ids[i].key.msgId : i \in 1..Len(ids)} \ {0}

Commit(P) ==
  /\ messages' = P.messages
  /\ pendingTimeouts' = P.pending
  /\ timers' = P.timers
  /\ processedMessageIds' = P.processed
  /\ evicted' = evicted \cup (knownIds(processedMessageIds) \ knownIds(P.processed))

\* The messages a delete (of platform id arg) or ban (of username arg) event
\* is aimed at: waiting for their timer, or committed.
hits(m, by, arg) ==
  IF by = "delete" THEN m.msgId = arg
  ELSE toLowerCase(m.displayName) = toLowerCase(arg)

Aimed(by, arg) ==
  {[call |-> timers[i].message.call, by |-> by, was |-> "waiting"] :
     i \in {j \in 1..Len(timers) : hits(timers[j].message, by, arg)}}
  \cup
  {[call |-> messages[i].call, by |-> by, was |-> "committed"] :
     i \in {j \in 1..Len(messages) : hits(messages[j], by, arg)}}

PipeInit ==
  /\ now = 0
  /\ messageDelay \in {initAuthDelay(p) : p \in DelayParams}
  /\ messages = <<>>
  /\ pendingTimeouts = emptyMap
  /\ timers = <<>>
  /\ processedMessageIds = <<>>
  /\ calls = 0
  /\ bursts = 0
  /\ retracted = {}
  /\ evicted = {}

\* A connector calls onMessage(chatMessage)
Arrival(e, call) ==
  ChatMessage(e.msgId, e.displayName, badgesOf(e.displayName), e.text, call)

HandleNewMessage(e) ==
  /\ calls < MaxArrivals
  /\ Commit(handleNewMessage(P0, Arrival(e, calls + 1), messageDelay))
  /\ calls' = calls + 1
  /\ UNCHANGED <<kickVars, twitchVars, pageVars, now, messageDelay, bursts, retracted>>

\* The earliest armed timer is due: its callback () => addMessage(message) runs.
\* Timers run in the order of their due time, and in creation order when
\* the due times are equal.
TimerFires(i) ==
  /\ i \in 1..Len(timers)
  /\ timers[i].due <= now
  /\ \A j \in 1..Len(timers) :
       j # i => \/ timers[j].due > timers[i].due
                \/ timers[j].due = timers[i].due /\ j > i
  /\ Commit(fireTimer(P0, i))
  /\ UNCHANGED <<kickVars, twitchVars, pageVars, now, messageDelay, calls, bursts, retracted>>

\* A connector calls onMessageDelete(msgId)
OnMessageDelete(msgId) ==
  /\ Commit(removeMessageByMsgId(P0, msgId))
  /\ retracted' = retracted \cup Aimed("delete", msgId)
  /\ UNCHANGED <<kickVars, twitchVars, pageVars, now, messageDelay, calls, bursts>>

\* A connector calls onUserBanned(username)
OnUserBanned(username) ==
  /\ Commit(removeMessagesByUser(P0, username))
  /\ retracted' = retracted \cup
       Aimed("ban", username)
  /\ UNCHANGED <<kickVars, twitchVars, pageVars, now, messageDelay, calls, bursts>>

\* Time passes, one delay window at a time
TickMs == DEFAULT_DELAY_MS

Tick ==
  /\ now + TickMs <= MaxTime
  /\ now' = now + TickMs
  /\ UNCHANGED <<kickVars, twitchVars, pageVars, messageDelay, messages, pendingTimeouts, timers,
                 processedMessageIds, calls, bursts, retracted,
                 evicted>>

\* PROCESSED_MESSAGES_LIMIT consecutive handleNewMessage calls, each with a
\* command ('!drop') without platform id from a different viewer: each call
\* adds its synthesized key, runs cleanupProcessedIds and returns at the
\* filter check.
CommandBurst ==
  /\ bursts < MaxBursts
  /\ bursts' = bursts + 1
  /\ Commit([P0 EXCEPT !.processed =
               addFreshKeys(@, [msgId |-> 0, provider |-> "kick", userId |-> 0,
                                text |-> "!drop", timestamp |-> now],
                            PROCESSED_MESSAGES_LIMIT)])
  /\ UNCHANGED <<kickVars, twitchVars, pageVars, now, messageDelay, calls, retracted>>

\* messagesLimit consecutive handleNewMessage calls, each with a message
\* without platform id from a different vip.
RECURSIVE handleAll(_, _, _, _)
handleAll(P, burst, lo, hi) ==
  IF lo > hi THEN Commit(P)
  ELSE \E Q \in {handleNewMessage(
                    P, [ChatMessage(0, "viewer", <<"vip">>, "gg",
                                    PROCESSED_MESSAGES_LIMIT * burst + lo)
                        EXCEPT !.userId = RandomIdBase + lo],
                    messageDelay)} :
         handleAll(Q, burst, lo + 1, hi)

PrivilegedBurst ==
  /\ bursts < MaxBursts
  /\ bursts' = bursts + 1
  /\ handleAll(P0, bursts + 1, 1, config.messagesLimit)
  /\ UNCHANGED <<kickVars, twitchVars, pageVars, now, messageDelay, calls, retracted>>

-----------------------------------------------------------------------------
(* KickChatService (src/services/KickChat.ts).  null is 0.  A WebSocket    *)
(* object is its index in `sockets`.  All handlers of every socket the     *)
(* service created stay attached and act on the fields of the service.     *)

ChatroomId == 7            \* channelInfo.chatroom.id of the channel
RECONNECT_DELAY_MS == 5000      \* setTimeout(..., 5000) of onclose
HEARTBEAT_INTERVAL_MS == 30000  \* setInterval(..., 30000) of startHeartbeat

NewSocket == [readyState |-> "CONNECTING", established |-> FALSE,
              subscribes |-> 0, pings |-> 0]

K0 == [svc |-> kick, sockets |-> sockets, timers |-> kickTimers, env |-> kickEnv]

KickCommit(K) ==
  /\ kick' = K.svc
  /\ sockets' = K.sockets
  /\ kickTimers' = K.timers
  /\ kickEnv' = K.env

\* setTimeout / setInterval: a new armed timer; its handle
armTimer(K, kind, ms) ==
  [K EXCEPT !.env.timerIds = @ + 1,
            !.timers = @ \cup {[id |-> K.env.timerIds + 1, kind |-> kind,
                                delay |-> ms]}]

\* clearTimeout / clearInterval
disarmTimer(K, id) == [K EXCEPT !.timers = {t \in @ : t.id # id}]

\* WebSocket.close()
closeSocket(K, i) ==
  IF K.sockets[i].readyState \in {"CONNECTING", "OPEN"}
    THEN [K EXCEPT !.sockets[i].readyState = "CLOSING"]
    ELSE K

\* WebSocket.send(data) on socket i: throws while CONNECTING, is dropped
\* when the socket is closing or closed
sendOn(K, i, field) ==
  IF K.sockets[i].readyState = "OPEN"
    THEN [K EXCEPT !.sockets[i][field] = @ + 1]
    ELSE K

connectToPusher(K) ==
  IF K.svc.chatroomId = 0 THEN K
  ELSE [K EXCEPT !.sockets = Append(@, NewSocket),
                 !.svc.pusherSocket = Len(K.sockets) + 1]

kickDisconnect(K) ==
  LET K1 == IF K.svc.pusherSocket # 0
              THEN [closeSocket(K, K.svc.pusherSocket) EXCEPT !.svc.pusherSocket = 0]
              ELSE K
      K2 == IF K1.svc.reconnectTimeout # 0
              THEN [disarmTimer(K1, K1.svc.reconnectTimeout)
                      EXCEPT !.svc.reconnectTimeout = 0]
              ELSE K1
      K3 == IF K2.svc.heartbeatInterval # 0
              THEN [disarmTimer(K2, K2.svc.heartbeatInterval)
                      EXCEPT !.svc.heartbeatInterval = 0]
              ELSE K2
  IN  [K3 EXCEPT !.svc.connected = FALSE]

startHeartbeat(K) ==
  [armTimer(K, "heartbeat", HEARTBEAT_INTERVAL_MS) EXCEPT !.svc.heartbeatInterval = K.env.timerIds + 1]

\* pusherSocket.onopen
onopen(K) == startHeartbeat([K EXCEPT !.svc.connected = TRUE])

\* this.onMessage(chatMessage), called for a frame of socket i
onMessage(K, i) ==
  [K EXCEPT !.env.delivered = @ \cup {i},
            !.env.deliveredReleased = @ \/ K.env.released]

\* The frames of the transport.  JSON.parse(event.data) throws for
\* "notJson"; the others parse to an object with the event name eventOf.
Frames == {"established", "chat", "notJson", "chatBadData", "chatNoSender",
           "chatNoContent", "delete", "ban"}

\* the frames that are not valid JSON, whose data is not valid JSON, or
\* whose payload lacks sender or content
BadFrames == {"notJson", "chatBadData", "chatNoSender", "chatNoContent"}

eventOf(frame) ==
  CASE frame = "established" -> "pusher:connection_established"
    [] frame \in {"chat", "chatBadData", "chatNoSender", "chatNoContent"} ->
         "App\\Events\\ChatMessageEvent"
    [] frame = "delete" -> "App\\Events\\MessageDeletedEvent"
    [] frame = "ban" -> "App\\Events\\UserBannedEvent"
    [] OTHER -> ""

\* messageData of a chat frame: data.data parsed; JSON.parse throws for
\* "chatBadData"
messageDataOf(frame) ==
  [parses  |-> frame # "chatBadData",
   sender  |-> frame \in {"chat", "chatNoContent"},
   content |-> frame \in {"chat", "chatNoSender"}]

processKickMessage(K, i, data) ==
  IF ~data.sender \/ ~data.content THEN K ELSE onMessage(K, i)

handlePusherMessage_noGuard(K, i, frame) ==
  IF ~messageDataOf(frame).parses THEN K ELSE onMessage(K, i)

handlePusherMessage(K, i, frame) ==
  LET messageData == messageDataOf(frame) IN
  IF ~messageData.parses THEN K
  ELSE IF messageData.sender /\ messageData.content
    THEN processKickMessage(K, i, messageData)
    ELSE K

\* pusherSocket.onmessage for a frame of socket i
onmessage(K, i, frame) ==
  IF frame = "notJson" THEN K
  ELSE IF eventOf(frame) = "pusher:connection_established"
    THEN IF K.svc.pusherSocket # 0
           THEN sendOn(K, K.svc.pusherSocket, "subscribes")
           ELSE K
  ELSE IF eventOf(frame) = "App\\Events\\ChatMessageEvent"
    THEN handlePusherMessage(K, i, frame)
  ELSE K

\* pusherSocket.onerror
onerror(K) == [K EXCEPT !.svc.connected = FALSE]

onclose_backoff(K) ==
  [armTimer([K EXCEPT !.svc.connected = FALSE], "reconnect",
            RECONNECT_DELAY_MS * Len(K.sockets))
     EXCEPT !.svc.reconnectTimeout = K.env.timerIds + 1]

\* pusherSocket.onclose
onclose(K) ==
  [armTimer([K EXCEPT !.svc.connected = FALSE], "reconnect", RECONNECT_DELAY_MS)
     EXCEPT !.svc.reconnectTimeout = K.env.timerIds + 1]

\* the setInterval callback of startHeartbeat
heartbeat(K) ==
  IF K.svc.pusherSocket # 0 /\ K.sockets[K.svc.pusherSocket].readyState = "OPEN"
    THEN sendOn(K, K.svc.pusherSocket, "pings")
    ELSE K

isConnected == kick.connected

liveSockets == {i \in 1..Len(sockets) : sockets[i].readyState \in {"CONNECTING", "OPEN"}}

KickInit ==
  /\ kick = [connected |-> FALSE, chatroomId |-> 0, pusherSocket |-> 0,
             reconnectTimeout |-> 0, heartbeatInterval |-> 0]
  /\ sockets = <<>>
  /\ kickTimers = {}
  /\ kickEnv = [inFlight |-> 0, connects |-> 0, timerIds |-> 0,
                delivered |-> {}, released |-> FALSE, socketsAtRelease |-> 0,
                deliveredReleased |-> FALSE, rejected |-> FALSE,
                moderation |-> 0, dropped |-> "no"]

\* The caller calls connect(): the call is suspended in getChannelInfo()
KickConnect ==
  /\ kickEnv.connects < MaxConnects
  /\ KickCommit([K0 EXCEPT !.env.connects = @ + 1, !.env.inFlight = @ + 1,
                           !.env.released = FALSE,
                           !.env.deliveredReleased = FALSE])
  /\ UNCHANGED <<pipeVars, twitchVars, pageVars>>

\* The outcomes of fetch + response.json() in getChannelInfo
Lookups == {"ok", "httpError", "networkError", "badJson"}

\* getChannelInfo(): the channel info (TRUE), or null (FALSE): every failure
\* is thrown inside its try block and caught
getChannelInfo(lookup) == lookup = "ok"

connectResume_noCatch(K, lookup) ==
  IF ~getChannelInfo(lookup)
    THEN [K EXCEPT !.env.rejected = TRUE]
    ELSE connectToPusher([K EXCEPT !.svc.chatroomId = ChatroomId])

\* connect() from the point where getChannelInfo() has returned; the Error
\* thrown for a null channelInfo is caught by connect's own catch block.
\* env.rejected records a rejection of the promise connect() returned.
connectResume(K, lookup) ==
  IF ~getChannelInfo(lookup)
    THEN K
    ELSE connectToPusher([K EXCEPT !.svc.chatroomId = ChatroomId])

\* getChannelInfo() returns to a suspended connect() call
KickLookupDone(lookup) ==
  /\ kickEnv.inFlight > 0
  /\ lookup = "ok" => Len(sockets) < MaxSockets
  /\ KickCommit(connectResume([K0 EXCEPT !.env.inFlight = @ - 1,
                                          !.env.dropped = "no"], lookup))
  /\ UNCHANGED <<pipeVars, twitchVars, pageVars>>

\* The service holds something to release: an open socket or an armed timer
holdsSession ==
  \/ kick.pusherSocket # 0 /\ sockets[kick.pusherSocket].readyState = "OPEN"
  \/ kickTimers # {}

\* The caller calls disconnect().  History: whether the call released a
\* session while no connect() call was in progress.
KickDisconnect ==
  /\ KickCommit([kickDisconnect(K0) EXCEPT
                   !.env.released = (kickEnv.inFlight = 0 /\ holdsSession),
                   !.env.socketsAtRelease = Len(sockets),
                   !.env.deliveredReleased = FALSE])
  /\ UNCHANGED <<pipeVars, twitchVars, pageVars>>

\* The open event of socket i
SocketOpen(i) ==
  /\ sockets[i].readyState = "CONNECTING"
  /\ KickCommit(onopen([K0 EXCEPT !.sockets[i].readyState = "OPEN"]))
  /\ UNCHANGED <<pipeVars, twitchVars, pageVars>>

\* A message event of socket i.  The transport sends "connection
\* established" once per socket.  History: env.dropped, whether the first
\* socket, while it is the only one, has received a malformed frame, and
\* then a chat frame after it; forgotten when a second socket is created.
SocketMessage(i, frame) ==
  /\ sockets[i].readyState = "OPEN"
  /\ frame = "established" => ~sockets[i].established
  /\ KickCommit(onmessage(
       [K0 EXCEPT !.sockets[i].established = @ \/ frame = "established",
                  !.env.dropped =
                     IF Len(sockets) # 1 THEN @
                     ELSE IF @ = "no" /\ frame \in BadFrames THEN "yes"
                     ELSE IF @ = "yes" /\ frame = "chat" THEN "chat followed"
                     ELSE @], i, frame))
  /\ UNCHANGED <<pipeVars, twitchVars, pageVars>>

\* The error event of socket i: the connection failed, its close event follows
SocketError(i) ==
  /\ sockets[i].readyState \in {"CONNECTING", "OPEN"}
  /\ KickCommit(onerror([K0 EXCEPT !.sockets[i].readyState = "CLOSING"]))
  /\ UNCHANGED <<pipeVars, twitchVars, pageVars>>

\* The close event of socket i: the peer closed an open socket, or the
\* closing handshake started by close() or by a failure has ended
SocketClose(i) ==
  /\ sockets[i].readyState \in {"OPEN", "CLOSING"}
  /\ KickCommit(onclose([K0 EXCEPT !.sockets[i].readyState = "CLOSED"]))
  /\ UNCHANGED <<pipeVars, twitchVars, pageVars>>

\* An armed reconnect timer fires: () => connectToPusher()
ReconnectFires(t) ==
  /\ t \in kickTimers /\ t.kind = "reconnect"
  /\ kick.chatroomId # 0 => Len(sockets) < MaxSockets
  /\ KickCommit(connectToPusher(disarmTimer([K0 EXCEPT !.env.dropped = "no"],
                                             t.id)))
  /\ UNCHANGED <<pipeVars, twitchVars, pageVars>>

\* An armed heartbeat interval fires (and stays armed)
HeartbeatFires(t) ==
  /\ t \in kickTimers /\ t.kind = "heartbeat"
  /\ kick.pusherSocket # 0 => sockets[kick.pusherSocket].pings < 1
  /\ KickCommit(heartbeat(K0))
  /\ UNCHANGED <<pipeVars, twitchVars, pageVars>>

NextKick ==
  \/ KickConnect
  \/ \E lookup \in Lookups : KickLookupDone(lookup)
  \/ KickDisconnect
  \/ \E i \in 1..Len(sockets) : SocketOpen(i)
  \/ \E i \in 1..Len(sockets), frame \in Frames : SocketMessage(i, frame)
  \/ \E i \in 1..Len(sockets) : SocketError(i)
  \/ \E i \in 1..Len(sockets) : SocketClose(i)
  \/ \E t \in kickTimers : ReconnectFires(t)
  \/ \E t \in kickTimers : HeartbeatFires(t)

-----------------------------------------------------------------------------
(* TwitchChatService (the class at the end of src/services/AuthService.ts). *)
(* null is 0; a tmi.Client object is its index in `clients`.  A catalog is  *)
(* "empty" or "loaded"; bttvEmotes can also hold a value that is not an     *)
(* array ("notArray").  A connect() call is suspended at one fetch at a     *)
(* time; twitchEnv.calls holds the stage each suspended call waits in.      *)

T0 == [svc |-> twitch, clients |-> clients, env |-> twitchEnv]

TwitchCommit(T) ==
  /\ twitch' = T.svc
  /\ clients' = T.clients
  /\ twitchEnv' = T.env

\* The responses of a fetch: a 2xx answer of the expected shape, a network
\* error or non-2xx status, a body that is not JSON, valid JSON of another
\* shape (an object where an array is expected)
Outcomes == {"ok", "fail", "badJson", "wrongShape"}

twitchDisconnect(T) ==
  IF T.svc.client # 0
    THEN [T EXCEPT !.clients[T.svc.client].state =
                      IF @ = "closed" THEN @ ELSE "closing",
                   !.svc.client = 0,
                   !.svc.connected = FALSE]
    ELSE T

\* validateToken: the response is not used, every error is caught
validateToken(T, outcome) == T

fetchBroadcasterId(T, outcome) ==
  IF outcome = "ok" THEN [T EXCEPT !.svc.broadcasterId = TRUE] ELSE T

fetchGlobalBadges_noCatch(T, outcome) ==
  IF outcome = "ok" THEN [T EXCEPT !.svc.globalBadges = "loaded"]
  ELSE IF outcome = "wrongShape" THEN T
  ELSE [T EXCEPT !.env.rejected = TRUE]

fetchGlobalBadges(T, outcome) ==
  IF outcome = "ok" THEN [T EXCEPT !.svc.globalBadges = "loaded"] ELSE T

fetchChannelBadges(T, outcome) ==
  IF outcome = "ok" THEN [T EXCEPT !.svc.channelBadges = "loaded"] ELSE T

\* this.bttvEmotes = globalEmotes || []
fetchGlobalBttvEmotes(T, outcome) ==
  CASE outcome = "ok" -> [T EXCEPT !.svc.bttvEmotes = "loaded"]
    [] outcome = "wrongShape" -> [T EXCEPT !.svc.bttvEmotes = "notArray"]
    [] OTHER -> T

\* the channel part of fetchChannelIdAndBttv: this.bttvEmotes.find throws
\* for a value that is no array, inside the try block
fetchChannelBttv(T, outcome) ==
  IF outcome = "ok" /\ T.svc.bttvEmotes # "notArray"
    THEN [T EXCEPT !.svc.bttvEmotes = "loaded"]
    ELSE T

\* the stage connect() suspends in next, after stage `done`
nextStage(T, done) ==
  CASE done = "start" /\ T.svc.oauthToken -> "validate"
    [] done \in {"start", "validate"} /\ ~T.svc.broadcasterId -> "broadcaster"
    [] done \in {"start", "validate", "broadcaster"} -> "global"
    [] done = "global" /\ T.svc.broadcasterId -> "channel"
    [] done \in {"global", "channel"} -> "bttvGlobal"
    [] done = "bttvGlobal" /\ T.svc.broadcasterId -> "bttvChannel"
    [] OTHER -> "client"

\* this.client = new tmi.Client(...); the listeners; this.client.connect()
createClient(T) ==
  [T EXCEPT !.clients = Append(@, [state |-> "new"]),
            !.svc.client = Len(T.clients) + 1]

applyFetch(T, stage, outcome) ==
  CASE stage = "validate" -> validateToken(T, outcome)
    [] stage = "broadcaster" -> fetchBroadcasterId(T, outcome)
    [] stage = "global" -> fetchGlobalBadges(T, outcome)
    [] stage = "channel" -> fetchChannelBadges(T, outcome)
    [] stage = "bttvGlobal" -> fetchGlobalBttvEmotes(T, outcome)
    [] stage = "bttvChannel" -> fetchChannelBttv(T, outcome)
    [] OTHER -> T

dropCall(cs, c) == [j \in 1..(Len(cs) - 1) |->
                      IF j < c THEN cs[j] ELSE cs[j + 1]]

\* the suspended connect() call c resumes with the response of its fetch
twitchResume(T, c, outcome) ==
  LET T1 == applyFetch(T, T.env.calls[c], outcome)
      stage == nextStage(T1, T.env.calls[c])
  IN  IF stage = "client"
        THEN createClient([T1 EXCEPT !.env.calls = dropCall(@, c)])
        ELSE [T1 EXCEPT !.env.calls[c] = stage]

\* connect() up to its first await
twitchConnect(T) ==
  LET T1 == twitchDisconnect(T)
  IN  [T1 EXCEPT !.env.calls = Append(@, nextStage(T1, "start"))]

\* the 'message' listener for a message of client i
twitchMessage(T, i, self) ==
  IF self THEN T
  ELSE IF T.svc.bttvEmotes = "notArray"
    THEN [T EXCEPT !.env.listenerThrew = TRUE]
    ELSE [T EXCEPT !.env.delivered = @ \cup {i}]

\* The badge catalogs the Helix endpoints answer with, as the set of
\* <<set_id, version id>> they hold; the image URL of an entry is written
\* <<catalog, set_id, version id>>.  A service holds a catalog once its
\* fetch succeeded ("loaded").
GlobalCatalog ==
  {<<"moderator", "1">>, <<"subscriber", "0">>, <<"vip", "1">>}
ChannelCatalog ==
  {<<"subscriber", "0">>, <<"subscriber", "3">>, <<"bits", "100">>}

\* the badges tag of a chat message (tags.badges), in Object.entries order;
\* <<>> also stands for a message without the tag
BadgeTags ==
  {<<>>,
   <<<<"subscriber", "0">>, <<"moderator", "1">>>>,
   <<<<"subscriber", "6">>, <<"vip", "1">>>>,
   <<<<"subscriber", "5d9f2208-5dd8-11e7-8513-2ff4adfae661">>>>,
   <<<<"bits", "100">>, <<"glitchcon2020", "1">>>>,
   <<<<"partner", "1">>, <<"subscriber", "3">>>>}

badgeUuids ==
  [type \in {"moderator", "subscriber", "broadcaster", "vip", "partner",
             "premium", "bits"} |->
     CASE type = "moderator" -> "3267646d-33f0-4b17-b3df-f923a41db1d0"
       [] type = "subscriber" -> "5d9f2208-5dd8-11e7-8513-2ff4adfae661"
       [] type = "broadcaster" -> "5527c58c-fb7d-422d-b31b-5fbe9c224b8d"
       [] type = "vip" -> "b817aba4-fad8-49e2-b88a-7cc744dfa6ec"
       [] type = "partner" -> "d12a2e27-16f6-41d0-ab77-b780518f00a3"
       [] type = "premium" -> "bbbe0f0f-e328-4877-a9a5-dfa608cabf6b"
       [] OTHER -> "73b5c3fb-24f9-4a82-a852-2f5d2d94d635"]

getBadgeUrl_globalFirst(svc, type, version) ==
  IF svc.globalBadges = "loaded" /\ <<type, version>> \in GlobalCatalog
    THEN <<"global", type, version>>
  ELSE IF svc.channelBadges = "loaded" /\ <<type, version>> \in ChannelCatalog
    THEN <<"channel", type, version>>
  ELSE IF type = "subscriber"
          /\ version \in {badgeUuids[t] : t \in DOMAIN badgeUuids}
    THEN <<"static-cdn", version, "2">>
  ELSE IF type \in DOMAIN badgeUuids
    THEN <<"static-cdn", badgeUuids[type], version>>
  ELSE <<>>

\* the URL is <<>> for the empty string; a version matches the UUID pattern
\* when it is one of the UUIDs of the model
getBadgeUrl(svc, type, version) ==
  IF svc.channelBadges = "loaded" /\ <<type, version>> \in ChannelCatalog
    THEN <<"channel", type, version>>
  ELSE IF svc.globalBadges = "loaded" /\ <<type, version>> \in GlobalCatalog
    THEN <<"global", type, version>>
  ELSE IF type = "subscriber"
          /\ version \in {badgeUuids[t] : t \in DOMAIN badgeUuids}
    THEN <<"static-cdn", version, "2">>
  ELSE IF type \in DOMAIN badgeUuids
    THEN <<"static-cdn", badgeUuids[type], version>>
  ELSE <<>>

parseBadges(svc, badges) ==
  SelectSeq([i \in 1..Len(badges) |->
               [type |-> badges[i][1], version |-> badges[i][2],
                url |-> getBadgeUrl(svc, badges[i][1], badges[i][2])]],
            LAMBDA badge : badge.url # <<>>)

\* The BetterTTV catalog the service holds once a fetch succeeded, in the
\* order of this.bttvEmotes: the global emotes, then the channel's emotes
\* whose id the catalog does not hold yet (a channel emote may carry the code
\* of a global one).
BttvCatalog ==
  <<[id |-> "g1", code |-> "catJAM"], [id |-> "g2", code |-> "monkaS"],
    [id |-> "c1", code |-> "catJAM"], [id |-> "c2", code |-> "pepeD"]>>

\* The text of a chat message, as its maximal runs of non-whitespace
\* characters and the whitespace characters between them
MessageTexts ==
  {<<>>, <<"hello">>, <<"catJAM">>, <<"catJAM", " ", "catJAM">>,
   <<"catjam", " ", " ", "monkaS">>, <<" ", "pepeD", " ", "hello", " ">>,
   <<"monkaS", " ", "pepeD", " ", "monkaS">>}

\* message.split(/\s+/): the runs between the whitespace, with an empty
\* string before a leading and after a trailing run of whitespace
RECURSIVE splitFrom(_, _, _)
splitFrom(text, i, inGap) ==
  IF i > Len(text) THEN IF inGap THEN <<"">> ELSE <<>>
  ELSE IF text[i] = " " THEN splitFrom(text, i + 1, TRUE)
  ELSE <<text[i]>> \o splitFrom(text, i + 1, FALSE)

split(text) ==
  IF text = <<>> THEN <<"">>
  ELSE IF text[1] = " " THEN <<"">> \o splitFrom(text, 1, FALSE)
  ELSE splitFrom(text, 1, FALSE)

\* Array.prototype.find: the first emote of the catalog with that code, <<>>
\* for undefined
findByCode(catalog, word) ==
  LET at == {i \in 1..Len(catalog) : catalog[i].code = word}
  IN  IF at = {} THEN <<>>
      ELSE <<catalog[CHOOSE i \in at : \A j \in at : i <= j]>>

RECURSIVE bttvEntries_repeated(_, _, _)
bttvEntries_repeated(catalog, words, unique) ==
  IF words = <<>> THEN <<>>
  ELSE LET found == findByCode(catalog, Head(words))
       IN  IF found # <<>>
             THEN <<[type |-> "bttv", name |-> found[1].code, id |-> found[1].id]>>
                  \o bttvEntries_repeated(catalog, Tail(words), unique)
             ELSE bttvEntries_repeated(catalog, Tail(words), unique)

\* words.forEach(...) of parseEmotes, with the Set uniqueBttvEmotes
RECURSIVE bttvEntries(_, _, _)
bttvEntries(catalog, words, unique) ==
  IF words = <<>> THEN <<>>
  ELSE LET found == findByCode(catalog, Head(words))
       IN  IF found # <<>> /\ found[1].id \notin unique
             THEN <<[type |-> "bttv", name |-> found[1].code, id |-> found[1].id]>>
                  \o bttvEntries(catalog, Tail(words), unique \cup {found[1].id})
             ELSE bttvEntries(catalog, Tail(words), unique)

\* parseEmotes(tags.emotes, message): one entry per position of a native
\* emote (emotes is the sequence of [id, start, end]), then the BetterTTV
\* entries when this.bttvEmotes.length > 0 (undefined for a value that is
\* no array)
parseEmotes(svc, emotes, message) ==
  [i \in 1..Len(emotes) |-> [type |-> "twitch", name |-> "", id |-> emotes[i].id]]
  \o (IF svc.bttvEmotes = "loaded"
        THEN bttvEntries(BttvCatalog, split(message), {})
        ELSE <<>>)

\* the 'messagedeleted' listener
messagedeleted(T, targetMsgId) ==
  IF targetMsgId /\ T.svc.onMessageDelete
    THEN [T EXCEPT !.env.deletes = TRUE]
    ELSE T

\* the events of a tmi.Client the service has a listener for, and the ban
\* and timeout events, for which it registers none
twitchEvent(T, i, ev) ==
  CASE ev = "connected" -> [T EXCEPT !.svc.connected = TRUE]
    [] ev = "disconnected" -> [T EXCEPT !.svc.connected = FALSE]
    [] ev = "chat" -> twitchMessage(T, i, FALSE)
    [] ev = "self" -> twitchMessage(T, i, TRUE)
    [] ev = "messagedeleted" -> messagedeleted(T, TRUE)
    [] ev = "messagedeletedNoTarget" -> messagedeleted(T, FALSE)
    [] OTHER -> T

TwitchEvents == {"connected", "disconnected", "chat", "self", "messagedeleted",
                 "messagedeletedNoTarget", "ban", "timeout", "connectFailed"}

\* new TwitchChatService(channel, onMessage, options): the options carry an
\* OAuth token or none, the broadcaster's user info or none
constructor(oauthToken, userInfo) ==
  [client |-> 0, connected |-> FALSE, oauthToken |-> oauthToken,
   broadcasterId |-> userInfo, onMessageDelete |-> TRUE,
   globalBadges |-> "empty", channelBadges |-> "empty", bttvEmotes |-> "empty"]

TwitchInit ==
  /\ twitch = constructor(FALSE, FALSE)
  /\ clients = <<>>
  /\ twitchEnv = [constructed |-> FALSE,
                  calls |-> <<>>, connects |-> 0, rejected |-> FALSE,
                  delivered |-> {}, listenerThrew |-> FALSE, deletes |-> FALSE,
                  bans |-> FALSE]

\* The page creates the service with the options of its session
TwitchConstruct(oauthToken, userInfo) ==
  /\ ~twitchEnv.constructed
  /\ twitch' = constructor(oauthToken, userInfo)
  /\ twitchEnv' = [twitchEnv EXCEPT !.constructed = TRUE]
  /\ UNCHANGED <<pipeVars, kickVars, pageVars, clients>>

\* The caller calls connect()
TwitchConnect ==
  /\ twitchEnv.constructed
  /\ twitchEnv.connects < MaxConnects
  /\ TwitchCommit(twitchConnect([T0 EXCEPT !.env.connects = @ + 1]))
  /\ UNCHANGED <<pipeVars, kickVars, pageVars>>

\* The fetch a suspended connect() call waits for completes
TwitchFetchDone(c, outcome) ==
  /\ c \in 1..Len(twitchEnv.calls)
  /\ Len(clients) < MaxClients
  /\ TwitchCommit(twitchResume(T0, c, outcome))
  /\ UNCHANGED <<pipeVars, kickVars, pageVars>>

\* The caller calls disconnect()
TwitchDisconnect ==
  /\ twitchEnv.constructed
  /\ TwitchCommit(twitchDisconnect(T0))
  /\ UNCHANGED <<pipeVars, kickVars, pageVars>>

\* tmi.Client i emits an event.  A client connects ("new" to "open"), loses
\* its connection and reconnects by itself (reconnect: true), or ends its
\* connection after disconnect().
TwitchClientEvent(i, ev) ==
  /\ i \in 1..Len(clients)
  /\ CASE ev = "connected" -> clients[i].state = "new"
       [] ev = "connectFailed" -> clients[i].state = "new"
       [] ev = "disconnected" -> clients[i].state \in {"open", "closing"}
       [] OTHER -> clients[i].state = "open"
  /\ TwitchCommit(twitchEvent(
       [T0 EXCEPT !.clients[i].state =
          CASE ev = "connected" -> "open"
            [] ev = "disconnected" -> IF @ = "closing" THEN "closed" ELSE "new"
            [] OTHER -> @], i, ev))
  /\ UNCHANGED <<pipeVars, kickVars, pageVars>>

NextTwitch ==
  \/ \E oauthToken, userInfo \in BOOLEAN : TwitchConstruct(oauthToken, userInfo)
  \/ TwitchConnect
  \/ \E c \in 1..MaxConnects, outcome \in Outcomes : TwitchFetchDone(c, outcome)
  \/ TwitchDisconnect
  \/ \E i \in 1..MaxClients, ev \in TwitchEvents : TwitchClientEvent(i, ev)

-----------------------------------------------------------------------------
(* The credential of the Twitch session in useChat.ts: localStorage, the    *)
(* twitchOauthToken and twitchChannel state, the refresh interval and the   *)
(* service the manageService effect keeps.  A token is the number of its    *)
(* issue (0: none); expiresAt 0 is an absent expiresAt.                     *)

A0 == auth

\* the expiresAt a session starts with: none, 9 minutes ahead, 15 minutes
\* ahead
Expiries(clock) ==
  {0, clock + TOKEN_REFRESH_THRESHOLD_MS - TOKEN_REFRESH_INTERVAL_MS \div 5,
   clock + TOKEN_REFRESH_THRESHOLD_MS + TOKEN_REFRESH_INTERVAL_MS}

\* tokenResponse.expires_in * 1000 of a refreshed token
ExpiresInMs == TOKEN_REFRESH_THRESHOLD_MS + TOKEN_REFRESH_INTERVAL_MS

shouldRefresh(A) ==
  \/ A.storage.expiresAt = 0
  \/ A.storage.expiresAt - A.clock < TOKEN_REFRESH_THRESHOLD_MS

\* The effects React runs after a render in which twitchOauthToken or
\* twitchChannel differ from the last render (state `old`): the interval
\* effect clears and re-arms the interval, the manageService effect
\* disconnects the service it kept and creates and connects a new one,
\* whose connect() starts its authenticated fetches with the token.
effects(old, A) ==
  LET tokenChanged == A.twitchOauthToken # old.twitchOauthToken
      changed == tokenChanged \/ A.twitchChannel # old.twitchChannel
      margin == A.storage.expiresAt - A.clock
  IN  [A EXCEPT
        !.interval = IF ~tokenChanged THEN @
                     ELSE IF A.twitchOauthToken = 0 THEN 0
                     ELSE A.clock + TOKEN_REFRESH_INTERVAL_MS,
        !.disconnects = IF changed /\ old.service # 0 THEN @ + 1 ELSE @,
        !.service = IF ~changed THEN @
                    ELSE IF A.twitchChannel THEN A.twitchOauthToken ELSE 0,
        !.services = IF changed /\ A.twitchChannel THEN @ + 1 ELSE @,
        !.staleUse = \/ @
                     \/ /\ changed /\ A.twitchChannel /\ A.twitchOauthToken # 0
                        /\ A.storage.expiresAt # 0
                        /\ margin < TOKEN_REFRESH_THRESHOLD_MS
                        /\ A.triggered = 0]

\* refreshTwitchTokenIfNeeded up to its await: "null" and "token" are its
\* return values, "await" is the call suspended in the token exchange
refreshStart(A) ==
  IF A.storage.token = 0 \/ ~A.storage.refreshToken THEN "null"
  ELSE IF shouldRefresh(A) THEN "await"
  ELSE "token"

\* initAuth after refreshTwitchTokenIfNeeded returned validToken
initAuthResume(A, validToken) ==
  IF validToken # 0
    THEN effects(A, [A EXCEPT !.twitchOauthToken = validToken,
                              !.twitchChannel = TRUE])
    ELSE A

refreshDone_teardown(A, ok) ==
  effects(A, [A EXCEPT !.inFlight = "no", !.failures = @ + 1,
                       !.twitchOauthToken = 0])

\* refreshTwitchTokenIfNeeded after its await: OAuthService.refreshTwitchToken
\* resolved with a token response (ok) or threw
refreshDone(A, ok) ==
  IF ok
    THEN LET B == effects(A, [A EXCEPT
                    !.inFlight = "no",
                    !.issued = @ + 1,
                    !.storage = [token |-> A.issued + 1,
                                 refreshToken |-> TRUE,
                                 expiresAt |-> A.clock + ExpiresInMs],
                    !.twitchOauthToken = A.issued + 1])
         IN  IF A.inFlight = "init" THEN initAuthResume(B, A.issued + 1) ELSE B
    ELSE [A EXCEPT !.inFlight = "no", !.failures = @ + 1]

AuthInit ==
  auth = [started |-> FALSE, clock |-> 0,
          storage |-> [token |-> 0, refreshToken |-> FALSE, expiresAt |-> 0],
          twitchOauthToken |-> 0, twitchChannel |-> FALSE,
          interval |-> 0, service |-> 0, services |-> 0, disconnects |-> 0,
          inFlight |-> "no", issued |-> 0, checks |-> 0, triggered |-> 0,
          failures |-> 0, staleUse |-> FALSE]

\* initAuth with the credential in the widget URL
InitAuthUrl(refreshToken, expiresAt) ==
  /\ ~auth.started
  /\ auth' = effects(A0, [A0 EXCEPT
                !.started = TRUE,
                !.issued = 1,
                !.storage = [token |-> 1, refreshToken |-> refreshToken,
                             expiresAt |-> expiresAt],
                !.twitchOauthToken = 1,
                !.twitchChannel = TRUE])
  /\ UNCHANGED <<pipeVars, kickVars, twitchVars, rows>>

\* initAuth with the credential a login left in localStorage
InitAuthStored(refreshToken, expiresAt) ==
  /\ ~auth.started
  /\ LET A == [A0 EXCEPT !.started = TRUE, !.issued = 1,
                         !.storage = [token |-> 1,
                                      refreshToken |-> refreshToken,
                                      expiresAt |-> expiresAt]]
     IN  auth' = CASE refreshStart(A) = "await" ->
                        [A EXCEPT !.inFlight = "init", !.triggered = @ + 1]
                   [] refreshStart(A) = "token" ->
                        initAuthResume(A, A.storage.token)
                   [] OTHER -> A
  /\ UNCHANGED <<pipeVars, kickVars, twitchVars, rows>>

\* OAuthService.refreshTwitchToken settles
RefreshDone(ok) ==
  /\ auth.inFlight # "no"
  /\ auth' = refreshDone(A0, ok)
  /\ UNCHANGED <<pipeVars, kickVars, twitchVars, rows>>

\* setInterval(refreshTwitchTokenIfNeeded, TOKEN_REFRESH_INTERVAL_MS) fires
IntervalFires ==
  /\ auth.interval # 0
  /\ auth.clock = auth.interval
  /\ auth.inFlight = "no"
  /\ auth.checks < MaxChecks
  /\ LET A == [A0 EXCEPT !.checks = @ + 1,
                         !.interval = @ + TOKEN_REFRESH_INTERVAL_MS]
     IN  auth' = IF refreshStart(A) = "await"
                   THEN [A EXCEPT !.inFlight = "check", !.triggered = @ + 1]
                   ELSE A
  /\ UNCHANGED <<pipeVars, kickVars, twitchVars, rows>>

\* A minute passes; an interval fires when it is due
AuthTick ==
  /\ auth.interval # 0
  /\ auth.clock < auth.interval
  /\ auth.checks < MaxChecks
  /\ auth' = [auth EXCEPT !.clock = @ + TOKEN_REFRESH_INTERVAL_MS \div 5]
  /\ UNCHANGED <<pipeVars, kickVars, twitchVars, rows>>

NextAuth ==
  \/ \E refreshToken \in BOOLEAN, expiresAt \in Expiries(auth.clock) :
       InitAuthUrl(refreshToken, expiresAt)
  \/ \E refreshToken \in BOOLEAN, expiresAt \in Expiries(auth.clock) :
       InitAuthStored(refreshToken, expiresAt)
  \/ \E ok \in BOOLEAN : RefreshDone(ok)
  \/ IntervalFires
  \/ AuthTick

-----------------------------------------------------------------------------
(* The rows of the visible history: pages/Chat.tsx renders one MessageRow   *)
(* per entry of messages, keyed by message.id, with the page's              *)
(* config.hideAfter (seconds) and onRemove = removeMessage.  rows.timeouts  *)
(* are the armed setTimeout timers of the mounted rows; rows.committed is   *)
(* history: the instant each entry was committed.                           *)

\* config.hideAfter of pages/Chat.tsx
CHAT_HIDE_AFTER == 60

idsOf(ms) == {ms[i].id : i \in 1..Len(ms)}

MessageRowEffect_always(R, message) ==
  [R EXCEPT !.timeouts = Append(@, [id |-> message.id,
                                    due |-> R.clock + R.hideAfter * 1000])]

\* the effect of a MessageRow that mounts
MessageRowEffect(R, message) ==
  IF R.hideAfter # 180
    THEN [R EXCEPT !.timeouts = Append(@, [id |-> message.id,
                                           due |-> R.clock + R.hideAfter * 1000])]
    ELSE R

\* React renders the rows after messages changed from old to new: the rows
\* of entries that left unmount (the effect's cleanup clears their timer),
\* the row of the entry that was committed mounts
render(R, old, new) ==
  LET R1 == [R EXCEPT !.timeouts = SelectSeq(@, LAMBDA t : t.id \in idsOf(new))]
      fresh == SelectSeq(new, LAMBDA m : m.id \notin idsOf(old))
  IN  IF fresh = <<>> THEN R1
      ELSE MessageRowEffect(
             [R1 EXCEPT !.committed = @ \cup {[id |-> fresh[1].id, at |-> R.clock]}],
             fresh[1])

HideInit ==
  rows = [hideAfter |-> 0, clock |-> 0, timeouts |-> <<>>, committed |-> {},
          hidden |-> 0, ticks |-> 0, unmounted |-> FALSE]

\* The page mounts: Chat.tsx with its hideAfter, or a page on useChat's
\* DEFAULT_CONFIG
PageMount(hideAfter) ==
  /\ rows.hideAfter = 0
  /\ rows' = [rows EXCEPT !.hideAfter = hideAfter]
  /\ UNCHANGED <<pipeVars, kickVars, twitchVars, auth>>

\* addMessage commits an entry (from handleNewMessage or from a delay timer)
\* and the page renders
HideCommit(e) ==
  /\ rows.hideAfter # 0
  /\ calls < MaxArrivals
  /\ localId(e.msgId, calls + 1) \notin idsOf(messages)
  /\ calls' = calls + 1
  /\ \E P \in {addMessage(P0, ChatMessage(e.msgId, e.displayName,
                                          badgesOf(e.displayName), e.text,
                                          calls + 1))} :
       /\ Commit(P)
       /\ rows' = render(rows, messages, P.messages)
  /\ UNCHANGED <<kickVars, twitchVars, auth, now, messageDelay, bursts,
                 retracted>>

\* The hide timer of a row fires: onRemove(message.id)
HideTimerFires(i) ==
  /\ i \in 1..Len(rows.timeouts)
  /\ rows.timeouts[i].due = rows.clock
  /\ \E P \in {removeMessage(P0, rows.timeouts[i].id)} :
       /\ Commit(P)
       /\ rows' = render([rows EXCEPT !.hidden = @ + 1], messages, P.messages)
  /\ UNCHANGED <<kickVars, twitchVars, auth, now, messageDelay, calls, bursts,
                 retracted>>

\* A connector calls onMessageDelete(msgId) and the page renders
HideDelete(msgId) ==
  /\ rows.hideAfter # 0
  /\ \E P \in {removeMessageByMsgId(P0, msgId)} :
       /\ Commit(P)
       /\ rows' = render(rows, messages, P.messages)
  /\ UNCHANGED <<kickVars, twitchVars, auth, now, messageDelay, calls, bursts,
                 retracted>>

\* Half a hide-after period passes; a timer fires when it is due
HideTick ==
  /\ rows.hideAfter # 0
  /\ rows.ticks < MaxHideTicks
  /\ \A i \in 1..Len(rows.timeouts) : rows.timeouts[i].due > rows.clock
  /\ rows' = [rows EXCEPT !.clock = @ + (rows.hideAfter * 1000) \div 2,
                          !.ticks = @ + 1]
  /\ UNCHANGED <<pipeVars, kickVars, twitchVars, auth>>

NextHide ==
  \/ \E hideAfter \in {CHAT_HIDE_AFTER, DEFAULT_CONFIG.hideAfter} :
       PageMount(hideAfter)
  \/ \E e \in Inbound : HideCommit(e)
  \/ \E i \in 1..MaxArrivals : HideTimerFires(i)
  \/ \E msgId \in MsgIds : HideDelete(msgId)
  \/ HideTick

-----------------------------------------------------------------------------
(* The hook as its page drives it: initAuth reads the messageDelay URL      *)
(* parameter, the connectors deliver messages, the page calls               *)
(* removeMessage(id), and the page unmounts.  rows.unmounted records that   *)
(* the cleanup of the hook's last effect has run.                           *)

\* the messageDelay URL parameters explored: <<seconds>>, or Absent
UrlDelayParams ==
  {Absent, <<0 - 1>>, <<0>>, <<3>>, <<MAX_DELAY_SECONDS>>,
   <<MAX_DELAY_SECONDS + 1>>}

\* events the filter is there for: a bot of config.ignoredUsers writes, with
\* and without platform id
IgnoredInbound ==
  {[msgId |-> 4, displayName |-> "StreamElements", text |-> "hi"],
   [msgId |-> 0, displayName |-> "StreamElements", text |-> "hi"]}

\* initAuth: setMessageDelay(delayMs) when the URL has the parameter; it runs
\* once, when the hook mounts
InitAuthDelay(param) ==
  /\ ~rows.unmounted
  /\ now = 0 /\ calls = 0 /\ messageDelay = DEFAULT_DELAY_MS
  /\ messageDelay' = initAuthDelay(param)
  /\ UNCHANGED <<kickVars, twitchVars, pageVars, now, messages, pendingTimeouts,
                 timers, processedMessageIds, calls, bursts, retracted, evicted>>

\* The page calls removeMessage(messageId)
RemoveMessage(messageId) ==
  /\ ~rows.unmounted
  /\ Commit(removeMessage(P0, messageId))
  /\ UNCHANGED <<kickVars, twitchVars, pageVars, now, messageDelay, calls, bursts,
                 retracted>>

\* the cleanup of the hook's last effect: every timer the pending table
\* records is cleared, the table is emptied
unmountCleanup(P) ==
  LET cleared == {P.pending[k].timeout : k \in DOMAIN P.pending}
  IN  [P EXCEPT !.timers = SelectSeq(@, LAMBDA t : t.id \notin cleared),
                !.pending = emptyMap]

\* The page unmounts.  No connector was created (the refs are null), so
\* `?.disconnect()` reaches none.  After it the connectors deliver nothing
\* and React discards the state updates of the unmounted hook.
Unmount ==
  /\ ~rows.unmounted
  /\ Commit(unmountCleanup(P0))
  /\ rows' = [rows EXCEPT !.unmounted = TRUE]
  /\ UNCHANGED <<kickVars, twitchVars, auth, now, messageDelay, calls, bursts,
                 retracted>>

NextFlow ==
  \/ \E param \in UrlDelayParams : InitAuthDelay(param)
  \/ \E e \in Inbound \cup IgnoredInbound
               \cup {[msgId |-> 5, displayName |-> "lea", text |-> "hi"]} :
       ~rows.unmounted /\ HandleNewMessage(e)
  \/ \E i \in 1..Len(timers) : ~rows.unmounted /\ TimerFires(i)
  \/ \E messageId \in idsOf(messages) \cup {RandomIdBase} :
       RemoveMessage(messageId)
  \/ Unmount
  \/ Tick

\* The pipeline under load: single messages (delayed with and without
\* platform id, privileged) between bursts that fill the history and the
\* recently-seen set
NextBurst ==
  \/ \E e \in {x \in Inbound : x.text = "hi" /\ x.msgId # 2} : HandleNewMessage(e)
  \/ \E i \in 1..Len(timers) : TimerFires(i)
  \/ Tick
  \/ CommandBurst
  \/ PrivilegedBurst


\* The pipeline over time: the URL delay, single messages, deletes, bans and
\* the unmount, with time passing for as long as a timer waits.

\* An armed timer is due and its callback runs.  On the mounted hook this is
\* TimerFires; after the unmount the callback still runs (its timer was not
\* cleared), addMessage deletes the pending entry and React discards the
\* state update, so the history does not change.
LiveTimerFires(i) ==
  \/ ~rows.unmounted /\ TimerFires(i)
  \/ /\ rows.unmounted
     /\ i \in 1..Len(timers)
     /\ timers[i].due <= now
     /\ \A j \in 1..Len(timers) :
          j # i => \/ timers[j].due > timers[i].due
                   \/ timers[j].due = timers[i].due /\ j > i
     /\ Commit([fireTimer(P0, i) EXCEPT !.messages = messages])
     /\ UNCHANGED <<kickVars, twitchVars, pageVars, now, messageDelay, calls,
                    bursts, retracted>>

\* Time passes until the next armed timer is due
LiveTick ==
  /\ timers # <<>>
  /\ \A i \in 1..Len(timers) : timers[i].due > now
  /\ \E i \in 1..Len(timers) :
       /\ \A j \in 1..Len(timers) : timers[i].due <= timers[j].due
       /\ now' = timers[i].due
  /\ UNCHANGED <<kickVars, twitchVars, pageVars, messageDelay, messages,
                 pendingTimeouts, timers, processedMessageIds, calls, bursts,
                 retracted, evicted>>

NextLive ==
  \/ \E param \in UrlDelayParams : InitAuthDelay(param)
  \/ \E e \in {x \in Inbound : x.text = "hi" /\ x.msgId # 2} :
       ~rows.unmounted /\ HandleNewMessage(e)
  \/ \E i \in 1..Len(timers) : LiveTimerFires(i)
  \/ \E msgId \in {1} : ~rows.unmounted /\ OnMessageDelete(msgId)
  \/ \E username \in BanNames : ~rows.unmounted /\ OnUserBanned(username)
  \/ Unmount
  \/ LiveTick

\* Deletes and redeliveries: messages with a platform id (one delayed, one
\* privileged), their delete events, and bursts of commands that fill the
\* recently-seen set
NextRedeliver ==
  \/ \E e \in {x \in Inbound : x.msgId \in {1, 3}} : HandleNewMessage(e)
  \/ \E i \in 1..Len(timers) : TimerFires(i)
  \/ \E msgId \in {1, 3} : OnMessageDelete(msgId)
  \/ Tick
  \/ CommandBurst

Init == PipeInit /\ KickInit /\ TwitchInit /\ AuthInit /\ HideInit

Next ==
  \/ \E e \in Inbound : HandleNewMessage(e)
  \/ \E i \in 1..Len(timers) : TimerFires(i)
  \/ \E msgId \in MsgIds : OnMessageDelete(msgId)
  \/ \E username \in BanNames : OnUserBanned(username)
  \/ Tick
  \/ CommandBurst
  \/ PrivilegedBurst

Spec == Init /\ [][Next]_vars

SpecKick == Init /\ [][NextKick]_vars

SpecTwitch == Init /\ [][NextTwitch]_vars

SpecAuth == Init /\ [][NextAuth]_vars

SpecHide == Init /\ [][NextHide]_vars

SpecFlow == Init /\ [][NextFlow]_vars

SpecBurst == Init /\ [][NextBurst]_vars

SpecRedeliver == Init /\ [][NextRedeliver]_vars

\* Timers that are due fire, and time passes while a timer waits
SpecLive ==
  /\ Init /\ [][NextLive]_vars
  /\ WF_vars(\E i \in 1..Len(timers) : LiveTimerFires(i))
  /\ WF_vars(LiveTick)

-----------------------------------------------------------------------------
(* Properties of the pipeline (specification Spec) *)

Last(s) == s[Len(s)]

callsOf(ms) == {ms[i].call : i \in 1..Len(ms)}

\* a message whose author holds a role that exempts it from the delay
wearsRole(m) ==
  \E i \in 1..Len(m.badges) :
     toLowerCase(m.badges[i]) \in
       {"lead_moderator", "moderator", "vip", "broadcaster", "owner", "og",
        "staff", "super_admin"}

\* m is neither a duplicate nor filtered in the current state
accepted(m) ==
  /\ ~setHas(processedMessageIds, getMessageKey(m))
  /\ ~shouldHideMessage(m.text, config.hideCommands, config.ignoredUsers,
                        m.displayName)

\* the message the next onMessage call delivers for platform event e, and
\* the pipeline after handleNewMessage has processed it
nextArrival(e) == Arrival(e, calls + 1)
afterArrival(e) == handleNewMessage(P0, nextArrival(e), messageDelay)

\* C1: an accepted non-privileged message is scheduled, not committed; it is
\* absent from the history while its timer is armed, no non-privileged
\* message is in the history before receivedAt + messageDelay, and the
\* callback of its timer leaves it as the last entry of the history.
C1_DelayedUntilTimer ==
  /\ \A i \in 1..Len(timers) : timers[i].message.call \notin callsOf(messages)
  /\ \A i \in 1..Len(messages) :
       ~wearsRole(messages[i]) => messages[i].timestamp + messageDelay <= now
  /\ \A e \in Inbound :
       accepted(nextArrival(e)) /\ ~wearsRole(nextArrival(e)) =>
         \A after \in {afterArrival(e)} :
           /\ nextArrival(e).call \notin callsOf(after.messages)
           /\ \E i \in 1..Len(after.timers) :
                /\ after.timers[i].message = nextArrival(e)
                /\ after.timers[i].due = now + messageDelay
  /\ \A i \in 1..Len(timers) :
       Last(fireTimer(P0, i).messages) = timers[i].message

\* a delayed message was committed by its timer after a delay of more than 0
C1_Witness ==
  /\ messageDelay > 0
  /\ \E i \in 1..Len(messages) :
       /\ ~wearsRole(messages[i])
       /\ messages[i].timestamp + messageDelay <= now

\* C2: an accepted privileged message is the last entry of the history when
\* handleNewMessage returns, no timer and no pending entry are created for
\* it, and no timer or pending entry ever holds a privileged message.
C2_PrivilegedImmediate ==
  /\ \A i \in 1..Len(timers) : ~wearsRole(timers[i].message)
  /\ \A k \in DOMAIN pendingTimeouts : ~wearsRole(pendingTimeouts[k].message)
  /\ \A e \in Inbound :
       accepted(nextArrival(e)) /\ wearsRole(nextArrival(e)) =>
         \A after \in {afterArrival(e)} :
           /\ after.messages # <<>>
           /\ Last(after.messages) = nextArrival(e)
           /\ after.timers = timers
           /\ \A k \in DOMAIN after.pending :
                after.pending[k].message.call # nextArrival(e).call

\* the message of the latest onMessage call is privileged and is the last
\* entry of the history at the time it was received
C2_Witness ==
  /\ calls >= 1
  /\ Len(messages) >= 1
  /\ Last(messages).call = calls
  /\ wearsRole(Last(messages))
  /\ Last(messages).timestamp = now

armedIds == {timers[i].id : i \in 1..Len(timers)}

\* C3: a message that was waiting out its delay when the delete
\* event for its platform id was processed has no armed timer and is never
\* in the history afterwards.
C3_DeletedNeverAppears ==
  \A r \in retracted :
    r.by = "delete" /\ r.was = "waiting" =>
      r.call \notin armedIds /\ r.call \notin callsOf(messages)

\* the entries of ms with a platform id other than msgId
othersOf(ms, msgId) == {i \in 1..Len(ms) : ms[i].msgId # msgId}

\* C4: when the history holds an entry with platform id msgId,
\* removeMessageByMsgId(msgId) leaves no entry with that id and keeps every
\* other entry, in the previous order; the deleted entry stays out.
C4_DeleteCommitted ==
  /\ \A msgId \in MsgIds :
       (\E i \in 1..Len(messages) : messages[i].msgId = msgId) =>
         \A after \in {removeMessageByMsgId(P0, msgId).messages} :
           \A others \in {othersOf(messages, msgId)} :
             /\ \A i \in 1..Len(after) : after[i].msgId # msgId
             /\ Len(after) = Cardinality(others)
             /\ \A i \in others :
                  after[Cardinality({j \in others : j <= i})] = messages[i]
  /\ \A r \in retracted :
       r.by = "delete" /\ r.was = "committed" => r.call \notin callsOf(messages)

\* a committed message was deleted and other entries are still in the history
C4_Witness ==
  /\ \E r \in retracted : r.by = "delete" /\ r.was = "committed"
  /\ Len(messages) >= 2

\* C5: a message of the banned author that was committed or
\* waiting out its delay when the ban event was processed is never in the
\* history afterwards.
C5_BannedNeverAppears ==
  \A r \in retracted : r.by = "ban" => r.call \notin callsOf(messages)

\* after is before with m appended, less the oldest entry when before was full
appended(before, after, m) ==
  after = IF Len(before) < config.messagesLimit
            THEN Append(before, m)
            ELSE Append(Tail(before), m)

\* C6: the history never exceeds messagesLimit entries; a commit (by a timer,
\* or of an accepted privileged message) appends the message, and drops
\* exactly the oldest entry when the history was full.
C6_HistoryBounded ==
  /\ Len(messages) <= config.messagesLimit
  /\ \A i \in 1..Len(timers) :
       appended(messages, fireTimer(P0, i).messages, timers[i].message)
  /\ \A e \in Inbound :
       accepted(nextArrival(e)) /\ wearsRole(nextArrival(e)) =>
         appended(messages, afterArrival(e).messages, nextArrival(e))

\* a single message was committed to a full history: the oldest entry of the
\* burst is gone, the second oldest is first and the new message is last
C6_Witness ==
  /\ Len(messages) = config.messagesLimit
  /\ Last(messages).call \in 1..MaxArrivals
  /\ messages[1].call = PROCESSED_MESSAGES_LIMIT + 2

\* the pending entries and history entries of P with platform id msgId
entriesOf(P, msgId) ==
  Cardinality({k \in DOMAIN P.pending : k = msgId})
    + Cardinality({i \in 1..Len(P.messages) : P.messages[i].msgId = msgId})

\* C7: for two events with the same platform id processed one after the
\* other, the second leaves the pipeline as the first left it; when the id
\* was unknown before and the first event is not filtered, the two leave
\* exactly one pending-or-committed entry with that id.
C7_DedupIdempotent ==
  \A e1 \in Inbound, e2 \in Inbound :
    e1.msgId # 0 /\ e1.msgId = e2.msgId =>
      \A first \in {handleNewMessage(P0, Arrival(e1, calls + 1), messageDelay)} :
        \A second \in {handleNewMessage(first, Arrival(e2, calls + 2),
                                        messageDelay)} :
          /\ second = first
          /\ /\ entriesOf(P0, e1.msgId) = 0
             /\ accepted(Arrival(e1, calls + 1))
             => entriesOf(second, e1.msgId) = 1

\* two events were processed, the second was dropped as a duplicate of the
\* first: one key, one entry
C7_Witness ==
  /\ calls = 2 /\ bursts = 0
  /\ setSize(processedMessageIds) = 1
  /\ processedMessageIds[1].key.msgId # 0
  /\ entriesOf(P0, processedMessageIds[1].key.msgId) = 1

\* C8 as stated: the history holds at most one entry per platform id.
C8_OnePerMsgId ==
  \A msgId \in MsgIds :
    Cardinality({i \in 1..Len(messages) : messages[i].msgId = msgId}) <= 1

\* C8 amended: the history holds at most one entry per platform id whose key
\* cleanupProcessedIds has never dropped from the recently-seen set.
C8_OnePerKnownMsgId ==
  \A msgId \in MsgIds \ evicted :
    Cardinality({i \in 1..Len(messages) : messages[i].msgId = msgId}) <= 1

\* after a trim of the recently-seen set an event was committed and its
\* redelivery was dropped
C8_Witness ==
  /\ calls = 2 /\ bursts = 1
  /\ setSize(processedMessageIds) = PROCESSED_MESSAGES_KEEP
  /\ timers = <<>>
  /\ \E msgId \in MsgIds \ evicted :
       /\ Cardinality({i \in 1..Len(messages) : messages[i].msgId = msgId}) = 1
       /\ Len(messages) = 1
-----------------------------------------------------------------------------
(* Properties of KickChatService (specification SpecKick) *)

\* C9: after disconnect() has returned on a service that had an open socket
\* or an armed timer and no connect() call in progress, and until connect()
\* is called again, no timer of the service is armed,
\* isConnected() is false, the service has created no further socket and has
\* not called onMessage.
C9_ReleasedStaysQuiet ==
  kickEnv.released =>
    /\ kickTimers = {}
    /\ ~isConnected
    /\ Len(sockets) = kickEnv.socketsAtRelease
    /\ ~kickEnv.deliveredReleased

\* C10: the service owns at most one socket that is connecting or open.
C10_OneLiveSocket == Cardinality(liveSockets) <= 1

reconnectTimers(ts) == {t \in ts : t.kind = "reconnect"}

\* C11: the close event of any socket arms exactly one new reconnect timer,
\* of 5000 ms whatever the number of sockets that failed before; every armed
\* reconnect timer has that delay, and its callback creates a new socket.
C11_OneFixedReconnectPerClose ==
  /\ \A t \in reconnectTimers(kickTimers) : t.delay = 5000
  /\ \A i \in 1..Len(sockets) :
       sockets[i].readyState \in {"OPEN", "CLOSING"} =>
         \A K \in {onclose([K0 EXCEPT !.sockets[i].readyState = "CLOSED"])} :
           /\ kickTimers \subseteq K.timers
           /\ Cardinality(K.timers \ kickTimers) = 1
           /\ \A t \in K.timers \ kickTimers :
                t.kind = "reconnect" /\ t.delay = 5000
  /\ \A t \in reconnectTimers(kickTimers) :
       \A K \in {connectToPusher(disarmTimer(K0, t.id))} :
         /\ Len(K.sockets) = Len(sockets) + 1
         /\ K.sockets[Len(K.sockets)].readyState = "CONNECTING"
         /\ t \notin K.timers

\* after one connect() and no disconnect() of a session, the first socket
\* and the socket of the first reconnect attempt have both closed, and a
\* reconnect timer of 5000 ms is armed again
C11_Witness ==
  /\ kickEnv.connects = 1 /\ kickEnv.socketsAtRelease = 0
  /\ Len(sockets) = 2
  /\ \A i \in 1..2 : sockets[i].readyState = "CLOSED"
  /\ \E t \in reconnectTimers(kickTimers) : t.delay = 5000

\* C12: when every connect() call so far has ended with a failed chatroom
\* lookup, a retry timer is armed.
C12_FailedConnectRetries ==
  kickEnv.connects >= 1 /\ kickEnv.inFlight = 0 /\ sockets = <<>> =>
    kickTimers # {}

\* C15: a delete or ban frame received on an open socket makes the service
\* call a moderation callback (onMessageDelete / onUserBanned).
C15_KickModerationSurfaced ==
  \A i \in 1..Len(sockets), frame \in {"delete", "ban"} :
    sockets[i].readyState = "OPEN" =>
      onmessage(K0, i, frame).env.moderation > kickEnv.moderation

\* C16: a malformed frame received on an open socket leaves the service, its
\* sockets and its timers as they were and calls no onMessage; a well-formed
\* chat frame received after it is delivered to onMessage.
C16_MalformedDropped ==
  \A i \in 1..Len(sockets), frame \in BadFrames :
    sockets[i].readyState = "OPEN" =>
      \A K \in {onmessage(K0, i, frame)} :
        /\ K = K0
        /\ onmessage([K0 EXCEPT !.env.delivered = {}], i, frame).env.delivered = {}
        /\ i \in onmessage([K EXCEPT !.env.delivered = {}], i, "chat").env.delivered

\* a malformed frame was received, the chat frame that followed it was
\* delivered, and the service is still connected with its heartbeat armed
C16_Witness ==
  /\ kickEnv.dropped = "chat followed"
  /\ kick.connected
  /\ \E t \in kickTimers : t.kind = "heartbeat"
  /\ \E i \in kickEnv.delivered : sockets[i].readyState = "OPEN"
-----------------------------------------------------------------------------
(* Properties of the Twitch connector (SpecTwitch)                          *)

\* C13: connect() never rejects to its caller: whatever the response of the
\* fetch a suspended connect() call waits for (validation, broadcaster
\* lookup, badge and emote catalogs) and whatever the answer of the Kick
\* channel lookup, the call resumes without rejecting, and a chat client
\* that fails to connect changes nothing: isConnected() stays false.
C13_ConnectNeverRejects ==
  /\ ~twitchEnv.rejected
  /\ \A c \in 1..Len(twitchEnv.calls), outcome \in Outcomes :
       Len(clients) < MaxClients => ~twitchResume(T0, c, outcome).env.rejected
  /\ \A lookup \in Lookups : ~connectResume(K0, lookup).env.rejected
  /\ \A i \in 1..Len(clients) :
       clients[i].state = "new" => twitchEvent(T0, i, "connectFailed") = T0
  /\ (\A i \in 1..Len(clients) : clients[i].state # "open")
       => ~twitch.connected

\* the first connect() ran to its end although the global badge fetch failed,
\* and its chat client has not connected
C13_Witness ==
  /\ twitchEnv.connects = 1
  /\ twitchEnv.calls = <<>>
  /\ twitch.client = 1
  /\ twitch.globalBadges = "empty"
  /\ clients[1].state = "new"
  /\ ~twitch.connected

\* C14: on every session with an open chat client, a single-message deletion
\* event that names its target calls onMessageDelete, and a ban or timeout
\* event calls onUserBanned.
C14_TwitchModerationSurfaced ==
  \A i \in 1..Len(clients) :
    clients[i].state = "open" =>
      /\ twitchEvent([T0 EXCEPT !.env.deletes = FALSE], i,
                     "messagedeleted").env.deletes
      /\ \A ev \in {"ban", "timeout"} :
           twitchEvent([T0 EXCEPT !.env.bans = FALSE], i, ev).env.bans

\* C17: whatever the metadata fetches answered, connect() ends by creating
\* the chat client, and a chat message received on an open client is
\* delivered to onMessage.
C17_MetadataNeverBlocks ==
  /\ \A c \in 1..Len(twitchEnv.calls), outcome \in Outcomes :
       Len(clients) < MaxClients =>
         \A T \in {twitchResume(T0, c, outcome)} :
           \/ Len(T.clients) = Len(clients) + 1
           \/ /\ Len(T.env.calls) = Len(twitchEnv.calls)
              /\ T.env.calls[c] # twitchEnv.calls[c]
  /\ \A i \in 1..Len(clients) :
       clients[i].state = "open" =>
         i \in twitchMessage([T0 EXCEPT !.env.delivered = {}], i,
                             FALSE).env.delivered

-----------------------------------------------------------------------------
(* Properties of the credential refresh (SpecAuth)                          *)

\* C18: a step in which the token exchange of refreshTwitchTokenIfNeeded
\* fails changes neither the stored and in-use credential, nor the service
\* instance and its connection (none disconnected, none created), nor the
\* pending table, its timers and the visible history, and the refresh
\* interval of a session stays armed for the same instant.
C18_RefreshFailureChangesNothing ==
  [][auth'.failures > auth.failures =>
       /\ auth'.storage = auth.storage
       /\ auth'.twitchOauthToken = auth.twitchOauthToken
       /\ auth'.twitchChannel = auth.twitchChannel
       /\ auth'.service = auth.service
       /\ auth'.services = auth.services
       /\ auth'.disconnects = auth.disconnects
       /\ auth'.interval = auth.interval
       /\ (auth.twitchOauthToken # 0 => auth'.interval >= auth'.clock)
       /\ UNCHANGED <<messages, pendingTimeouts, timers>>]_vars

\* a periodic check of a running session failed to refresh: the service
\* created with the credential is still the one in use
C18_Witness ==
  /\ auth.failures >= 1
  /\ auth.inFlight = "no"
  /\ auth.service # 0
  /\ auth.service = auth.twitchOauthToken
  /\ auth.interval > auth.clock

\* C19: no connector starts its authenticated fetches with a credential that
\* is known to expire in less than TOKEN_REFRESH_THRESHOLD_MS unless a
\* refresh was triggered before, and while a credential is in use the next
\* expiry check is armed at most TOKEN_REFRESH_INTERVAL_MS ahead.
C19_RefreshBeforeUse ==
  /\ ~auth.staleUse
  /\ auth.twitchOauthToken # 0 =>
       /\ auth.interval >= auth.clock
       /\ auth.interval - auth.clock <= TOKEN_REFRESH_INTERVAL_MS

-----------------------------------------------------------------------------
(* Properties of the hide-after timers (SpecHide)                           *)

-----------------------------------------------------------------------------
(* Properties of the pipeline as the page drives it (specification SpecFlow) *)

\* the positions of the entries of ms whose local id is not id
keptBy(ms, id) == {i \in 1..Len(ms) : ms[i].id # id}

\* C21: removeMessage(id) removes from the history exactly the entries whose
\* local id is id and keeps the other entries in their order; the pending
\* table, the armed timers and the recently-seen set stay as they were; an
\* id that names no entry changes nothing.
C21_RemoveMessageExact ==
  \A id \in idsOf(messages) \cup {RandomIdBase} :
    LET Q == removeMessage(P0, id)
        kept == keptBy(messages, id)
    IN  /\ Q.pending = pendingTimeouts
        /\ Q.timers = timers
        /\ Q.processed = processedMessageIds
        /\ Len(Q.messages) = Cardinality(kept)
        /\ \A a \in 1..Len(Q.messages) : Q.messages[a].id # id
        /\ \A i \in kept : \E a \in 1..Len(Q.messages) : Q.messages[a] = messages[i]
        /\ \A i, j \in kept :
             i < j => \E a, b \in 1..Len(Q.messages) :
                        a < b /\ Q.messages[a] = messages[i]
                              /\ Q.messages[b] = messages[j]
        /\ (id \notin idsOf(messages) => Q = P0)

\* removeMessage(id) took the moderator's committed message out of the
\* history while another message waits for its timer in the pending table
C21_Witness ==
  /\ 3 \in knownIds(processedMessageIds)
  /\ 3 \notin idsOf(messages)
  /\ DOMAIN pendingTimeouts # {}
  /\ timers # <<>>

\* a command, or a message of an author the configuration ignores
filteredOut(m) ==
  \/ m.text \in {"!cmd", "!drop"}
  \/ toLowerCase(m.displayName) \in {"streamelements", "@streamelements", "cuscuzbot"}

\* C22: with hideCommands enabled, no message whose text starts with '!' and
\* no message whose author's display name is, case-insensitively, a member
\* of the ignored set is ever in the pending table, waiting for a delay
\* timer, or in the visible history.
C22_FilteredNeverPlaced ==
  /\ \A i \in 1..Len(messages) : ~filteredOut(messages[i])
  /\ \A i \in 1..Len(timers) : ~filteredOut(timers[i].message)
  /\ \A k \in DOMAIN pendingTimeouts : ~filteredOut(pendingTimeouts[k].message)

\* handleNewMessage has processed a message of StreamElements and a command:
\* their keys are in the recently-seen set
C22_Witness ==
  /\ config.hideCommands
  /\ 4 \in knownIds(processedMessageIds)
  /\ \E i \in 1..Len(processedMessageIds) : processedMessageIds[i].key.text = "!cmd"

\* C23: for every messageDelay input the delay applied lies in [0, 6]
\* seconds: an input below 0 gives 0, an input above 6 gives 6, an input
\* inside the range is used as given, and without the parameter the delay
\* is the default of 5 seconds; every armed timer is due that delay after
\* its message was received.
C23_DelayClamped ==
  /\ messageDelay \in 0..6000
  /\ \A p \in UrlDelayParams :
       LET d == initAuthDelay(p) IN
         /\ 0 <= d /\ d <= 6000
         /\ (p = Absent => d = 5000)
         /\ (p # Absent /\ p[1] < 0 => d = 0)
         /\ (p # Absent /\ p[1] > 6 => d = 6000)
         /\ (p # Absent /\ p[1] >= 0 /\ p[1] <= 6 => d = p[1] * 1000)
  /\ \A i \in 1..Len(timers) :
       timers[i].due = timers[i].message.timestamp + messageDelay

\* initAuth has set a delay other than the default (from a parameter inside
\* the range) and a message waits on a timer armed with it
C23_Witness ==
  /\ messageDelay = 3000
  /\ \E i \in 1..Len(timers) : timers[i].due = timers[i].message.timestamp + 3000

\* two delayed messages of one connector keep their receipt order: those in
\* the history stand in receipt order, and none still waits on its timer
\* while a later one of the same connector is in the history
receiptOrderKept ==
  /\ \A i, j \in 1..Len(messages) :
       (/\ i < j
        /\ ~wearsRole(messages[i]) /\ ~wearsRole(messages[j])
        /\ messages[i].provider = messages[j].provider)
       => messages[i].call < messages[j].call
  /\ \A i \in 1..Len(timers) : \A j \in 1..Len(messages) :
       (/\ ~wearsRole(messages[j])
        /\ timers[i].message.provider = messages[j].provider)
       => timers[i].message.call > messages[j].call

\* a step that commits puts the new entry after every entry there was, and
\* the entries that stay keep their relative order
commitAppends ==
  /\ \A i \in 1..Len(messages') :
       messages'[i].call \notin callsOf(messages) => i = Len(messages')
  /\ \A i, j \in 1..Len(messages) :
       (i < j /\ messages[i].call \in callsOf(messages')
              /\ messages[j].call \in callsOf(messages'))
       => \E a, b \in 1..Len(messages') :
            a < b /\ messages'[a] = messages[i] /\ messages'[b] = messages[j]

\* C24: of two accepted non-privileged messages a, b that one connector
\* delivers in that order under the same delay, a is committed before b and
\* precedes it in the history; across connectors the order of the history
\* is the order of the commits.
C24_ReceiptOrderKept ==
  [][receiptOrderKept' /\ commitAppends]_vars

\* two delayed messages of the Twitch connector, received at different
\* times, are both in the history
C24_Witness ==
  /\ Len(messages) = 2
  /\ ~wearsRole(messages[1]) /\ ~wearsRole(messages[2])
  /\ messages[1].provider = messages[2].provider
  /\ messages[1].timestamp < messages[2].timestamp
  /\ timers = <<>>

-----------------------------------------------------------------------------
(* Properties of the badges the Twitch connector attaches (SpecTwitch) *)

\* the URL the catalogs of the service and the hardcoded table give a badge,
\* <<>> when none has it
resolved(type, version) ==
  IF twitch.channelBadges = "loaded" /\ <<type, version>> \in ChannelCatalog
    THEN <<"channel", type, version>>
  ELSE IF twitch.globalBadges = "loaded" /\ <<type, version>> \in GlobalCatalog
    THEN <<"global", type, version>>
  ELSE IF type \in {"moderator", "subscriber", "broadcaster", "vip", "partner",
                    "premium", "bits"}
    THEN IF type = "subscriber" /\ Len(version) > 3
           THEN <<"static-cdn", version, "2">>
           ELSE <<"static-cdn", badgeUuids[type], version>>
  ELSE <<>>

\* C25: the URL attached to a badge is the channel catalog's entry when that
\* catalog has the badge's type and version, otherwise the global catalog's
\* entry, otherwise the hardcoded fallback for that type (for a subscriber
\* badge whose version is a UUID, the static URL built from that version);
\* a badge none of them has is dropped, never attached with an empty URL.
C25_BadgeUrlResolution ==
  \A badges \in BadgeTags :
    LET parsed == parseBadges(twitch, badges)
        has == {i \in 1..Len(badges) : resolved(badges[i][1], badges[i][2]) # <<>>}
    IN  /\ Len(parsed) = Cardinality(has)
        /\ \A a \in 1..Len(parsed) :
             /\ parsed[a].url # <<>>
             /\ parsed[a].url = resolved(parsed[a].type, parsed[a].version)
        /\ \A i \in has : \E a \in 1..Len(parsed) :
             parsed[a].type = badges[i][1] /\ parsed[a].version = badges[i][2]

\* both catalogs are loaded and the 'message' listener has delivered a chat
\* message, whose badges parseBadges resolved
C25_Witness ==
  /\ twitch.channelBadges = "loaded"
  /\ twitch.globalBadges = "loaded"
  /\ twitchEnv.delivered # {}
  /\ Len(parseBadges(twitch, <<<<"bits", "100">>, <<"glitchcon2020", "1">>>>)) = 1

\* the badge lists hasPrivilegedBadge is applied to
BadgeLists ==
  {<<>>, <<"subscriber">>, <<"subscriber", "Moderator">>, <<"VIP">>,
   <<"lead_moderator">>, <<"Lead_Moderator">>, <<"Lead-Moderator">>,
   <<"super_admin">>, <<"Super-Admin">>, <<"broadcaster">>, <<"owner">>,
   <<"staff">>, <<"OG">>, <<"subscriber", "og">>}

\* some badge's type is, in lower case, one of roles
hasRoleOf(badges, roles) ==
  \E i \in 1..Len(badges) : toLowerCase(badges[i]) \in roles

\* the messages the pipeline holds: waiting on a timer, or in the history
held == {timers[i].message : i \in 1..Len(timers)} \cup Range(messages)

\* C27 as stated: the exempting roles are moderator, lead-moderator, vip,
\* broadcaster, owner, staff, super-admin and og; a message the pipeline
\* holds was treated as privileged exactly when it wears one, and is never
\* on a timer when it does.
C27_NamedRolesExempt ==
  LET roles == {"moderator", "lead-moderator", "vip", "broadcaster", "owner",
                "staff", "super-admin", "og"}
  IN  /\ \A m \in held : hasPrivilegedBadge(m.badges) <=> hasRoleOf(m.badges, roles)
      /\ \A i \in 1..Len(timers) : ~hasRoleOf(timers[i].message.badges, roles)

\* C27: hasPrivilegedBadge is true exactly when some badge's type is, in
\* lower case, one of lead_moderator, moderator, vip, broadcaster, owner, og,
\* staff, super_admin (the compound roles spelled with an underscore); a
\* message without such a badge is delayed, one with such a badge never is.
C27_PrivilegedRoles ==
  LET roles == {"lead_moderator", "moderator", "vip", "broadcaster", "owner",
                "og", "staff", "super_admin"}
  IN  /\ \A badges \in BadgeLists :
           hasPrivilegedBadge(badges) <=> hasRoleOf(badges, roles)
      /\ \A m \in held : hasPrivilegedBadge(m.badges) <=> hasRoleOf(m.badges, roles)
      /\ \A i \in 1..Len(timers) : ~hasRoleOf(timers[i].message.badges, roles)
      /\ \A i \in 1..Len(messages) :
           ~hasRoleOf(messages[i].badges, roles)
             => messages[i].timestamp + messageDelay <= now

\* the moderator's message was committed at once and the message of a
\* viewer whose badge type is 'Lead-Moderator' waits on a timer
C27_Witness ==
  /\ \E i \in 1..Len(messages) : messages[i].badges = <<"subscriber", "Moderator">>
  /\ \E i \in 1..Len(timers) : timers[i].message.badges = <<"Lead-Moderator">>

\* C29: every message that was scheduled and has neither been committed nor
\* cancelled has exactly one entry in the pending table, under its msgId or
\* under a synthesized key, holding the handle of its armed timer; the
\* entries of the pending table and the armed delay timers correspond one
\* to one.
C29_PendingMatchesTimers ==
  /\ \A i \in 1..Len(timers) :
       Cardinality({k \in DOMAIN pendingTimeouts :
                      /\ pendingTimeouts[k].timeout = timers[i].id
                      /\ pendingTimeouts[k].message = timers[i].message}) = 1
  /\ \A k \in DOMAIN pendingTimeouts :
       Cardinality({i \in 1..Len(timers) :
                      timers[i].id = pendingTimeouts[k].timeout}) = 1
  /\ Cardinality(DOMAIN pendingTimeouts) = Len(timers)

\* C30: after the unmount cleanup of useChat every pending delayed commit is
\* cancelled: no delay timer is armed and the pending table is empty, so
\* that no message can be committed afterwards.
C30_TeardownCancelsAll ==
  rows.unmounted => timers = <<>> /\ pendingTimeouts = emptyMap

-----------------------------------------------------------------------------
(* Properties of the pipeline under load (specification SpecBurst) *)

\* the calls whose entry is in the history after the step and was not before,
\* and those whose entry was and is no more
committedNow == callsOf(messages') \ callsOf(messages)
evictedNow == callsOf(messages) \ callsOf(messages')

\* C26: a step that schedules a message (arms its delay timer) leaves the
\* history as it was, however many messages wait; an entry leaves the
\* history only in a step that commits, when the committed entries make the
\* history longer than messagesLimit, and then only the surplus leaves.
C26_ScheduleLeavesHistory ==
  [][/\ Len(timers') > Len(timers) => messages' = messages
     /\ evictedNow # {} =>
          /\ committedNow # {}
          /\ Len(messages) + Cardinality(committedNow) > 20
          /\ Cardinality(evictedNow) =
               Len(messages) + Cardinality(committedNow) - 20
          /\ Len(messages') = 20]_vars

\* a delayed message was committed into the full history, from which the
\* oldest entry of the burst left, and another message waits on its timer
C26_Witness ==
  /\ Len(messages) = 20
  /\ timers # <<>>
  /\ ~wearsRole(Last(messages))
  /\ wearsRole(messages[1])

\* a is what is left of b when only the oldest keys are dropped
newestOf(a, b) ==
  \/ a = b
  \/ /\ a # <<>>
     /\ \E k \in 1..Len(b) :
          /\ a[1].key = b[k].key
          /\ a[1].n <= b[k].n
          /\ Tail(a) = SubSeq(b, k + 1, Len(b))

\* C28: after every handleNewMessage the recently-seen set holds at most
\* 1000 keys; a call whose key makes it exceed 1000 leaves exactly the 500
\* most recent keys, the key just added among them, and drops only the
\* oldest; a call that does not exceed the limit drops nothing.
C28_SeenSetBounded ==
  /\ setSize(processedMessageIds) <= 1000
  /\ \A e \in Inbound :
       LET key == getMessageKey(nextArrival(e))
           Q == afterArrival(e).processed
           added == Append(processedMessageIds, [key |-> key, n |-> 1])
       IN  /\ setSize(Q) <= 1000
           /\ ~setHas(processedMessageIds, key) =>
                /\ Last(Q).key = key
                /\ newestOf(Q, added)
                /\ setSize(Q) = IF setSize(processedMessageIds) + 1 > 1000
                                  THEN 500 ELSE setSize(processedMessageIds) + 1

\* the key of message 1 was added to a full set of 1000 keys: the set was
\* trimmed to 500 keys, the newest of which is that key
C28_Witness ==
  /\ setSize(processedMessageIds) = 500
  /\ Last(processedMessageIds).key.msgId = 1
  /\ Len(processedMessageIds) = 2

-----------------------------------------------------------------------------
(* Properties of the emotes the Twitch connector attaches (SpecTwitch) *)

\* the words of a text: its elements other than whitespace, and the empty
\* word of a text that is empty or begins or ends with whitespace
wordsOf(text) ==
  {text[i] : i \in {j \in 1..Len(text) : text[j] # " "}}
  \cup (IF text = <<>> \/ text[1] = " " \/ text[Len(text)] = " " THEN {""} ELSE {})

\* the BetterTTV entries parseEmotes attaches to a message with that text
attached(text) ==
  SelectSeq(parseEmotes(twitch, <<>>, text), LAMBDA e : e.type = "bttv")

\* the first emote of the catalog that carries the code
firstWith(code) ==
  CHOOSE i \in 1..Len(BttvCatalog) :
    /\ BttvCatalog[i].code = code
    /\ \A j \in 1..(i - 1) : BttvCatalog[j].code # code

-----------------------------------------------------------------------------
(* Further properties of the Kick connector (specification SpecKick) *)

\* C32: on every socket a subscribe request is sent only after the
\* connection-established event was received on that socket, once per such
\* event, and no socket exists before the chatroom id is resolved.
C32_SubscribeAfterEstablished ==
  /\ \A i \in 1..Len(sockets) :
       sockets[i].subscribes <= IF sockets[i].established THEN 1 ELSE 0
  /\ sockets # <<>> => kick.chatroomId = ChatroomId

\* C33: the service has at most one heartbeat timer armed at any time,
\* across socket closes and reconnects.
C33_OneHeartbeat ==
  Cardinality({t \in kickTimers : t.kind = "heartbeat"}) <= 1

\* C34: when disconnect() is called while a connect() call is suspended in
\* its lookup, the connect() call that resumes (with a successful lookup)
\* opens no socket and the service points to none.
C34_DisconnectCancelsConnect ==
  kickEnv.inFlight > 0 =>
    \A K \in {kickDisconnect(K0)} :
      \A R \in {connectResume([K EXCEPT !.env.inFlight = @ - 1], "ok")} :
        /\ Len(R.sockets) = Len(K.sockets)
        /\ R.svc.pusherSocket = 0

\* C35: isConnected() is true only while the socket the service points to
\* is open.
C35_ConnectedMeansCurrentOpen ==
  isConnected =>
    /\ kick.pusherSocket # 0
    /\ sockets[kick.pusherSocket].readyState = "OPEN"

-----------------------------------------------------------------------------
(* Further properties of the pipeline under load (specification SpecBurst) *)

\* the platform ids of the entries of the history
msgIdsOf(ms) == {ms[i].msgId : i \in 1..Len(ms)} \ {0}

\* C36 as stated: no msgId is at once a key of the pending table and the
\* msgId of an entry of the history.
C36_PendingNotCommitted ==
  DOMAIN pendingTimeouts \cap msgIdsOf(messages) = {}

\* C36: the callback that commits a message removes the pending entry of its
\* msgId in the same step in which it appends the message; a msgId is a key
\* of the pending table and the msgId of a history entry at once only after
\* its key was dropped from the recently-seen set by a trim and the event
\* was delivered again.
C36_PendingNotCommittedInWindow ==
  /\ DOMAIN pendingTimeouts \cap msgIdsOf(messages) \subseteq evicted
  /\ \A i \in 1..Len(timers) :
       \A Q \in {fireTimer(P0, i)} :
         /\ timers[i].message.msgId \notin DOMAIN Q.pending
         /\ Last(Q.messages) = timers[i].message

\* the timer of message 1 has fired: the message is in the history and the
\* pending table has no entry for it, the key never having been trimmed
C36_Witness ==
  /\ 1 \in msgIdsOf(messages)
  /\ 1 \notin DOMAIN pendingTimeouts
  /\ 1 \notin evicted
  /\ timers # <<>>

-----------------------------------------------------------------------------
(* Properties of the pipeline over time (specification SpecLive) *)

\* the calls whose message waits for its timer
waitingCalls == {timers[i].message.call : i \in 1..Len(timers)}

\* the message of call c waits no longer: it is in the history, or a delete
\* or a ban cancelled it while it waited, or the hook is unmounted
settled(c) ==
  /\ c \notin waitingCalls
  /\ \/ c \in callsOf(messages)
     \/ \E r \in retracted : r.call = c /\ r.was = "waiting"
     \/ rows.unmounted

\* C37: every accepted message that waits out its delay is eventually
\* committed to the history or cancelled by a delete, a ban or the unmount;
\* given that due timers fire, none stays pending forever.
C37_DelayedEventuallySettled ==
  \A c \in 1..MaxArrivals : (c \in waitingCalls) ~> settled(c)

\* time has passed, one delayed message was committed by its timer and
\* another was cancelled while it waited
C37_Witness ==
  /\ now > 0
  /\ timers = <<>>
  /\ \E i \in 1..Len(messages) : ~wearsRole(messages[i])
  /\ \E r \in retracted : r.was = "waiting" /\ r.call \notin callsOf(messages)

-----------------------------------------------------------------------------
(* Deletes and redeliveries (specification SpecRedeliver) *)

\* the pipeline after onMessageDelete(e.msgId) and then a redelivery of e
redelivered(e) ==
  handleNewMessage(removeMessageByMsgId(P0, e.msgId),
                   Arrival(e, calls + 1), messageDelay)

\* C38 as stated: when onMessageDelete(msgId) retracts a message, pending or
\* committed, a redelivery of the event with that msgId brings no message
\* with that msgId into the pending table or the history.
C38_DeletedStaysOut ==
  \A e \in {x \in Inbound : x.msgId # 0} :
    Aimed("delete", e.msgId) # {} =>
      \A R \in {redelivered(e)} :
        /\ e.msgId \notin DOMAIN R.pending
        /\ e.msgId \notin msgIdsOf(R.messages)

\* C38: onMessageDelete(msgId) leaves the recently-seen set as it is, and
\* while the key of msgId is in that set a redelivery of the event, before
\* or after the delete, is dropped as a duplicate: it changes neither the
\* pending table, the timers, the history nor the set.
C38_DeletedStaysOutInWindow ==
  \A e \in {x \in Inbound : x.msgId # 0} :
    \A D \in {removeMessageByMsgId(P0, e.msgId)} :
      /\ D.processed = processedMessageIds
      /\ e.msgId \in knownIds(processedMessageIds) =>
           /\ redelivered(e) = D
           /\ handleNewMessage(P0, Arrival(e, calls + 1), messageDelay) = P0

\* message 1 was deleted while it waited, its event was delivered again and
\* dropped: two calls, nothing waits and nothing is shown
C38_Witness ==
  /\ calls = 2
  /\ retracted = {[call |-> 1, by |-> "delete", was |-> "waiting"]}
  /\ 1 \in knownIds(processedMessageIds)
  /\ timers = <<>>
  /\ messages = <<>>

====
